---- MODULE Spec2Model ----
(***************************************************************************)
(* FinHelper: the auto-categorization engine (rule store, classifier,      *)
(* category resolver), the transaction ledger's balance effects, the       *)
(* spend aggregator and the budget evaluator, as state machines.           *)
(*                                                                         *)
(* Conventions.  Text is a sequence of one-character strings.  None is     *)
(* Python's None.  Money amounts are integers (the code's floats on the    *)
(* values used here are exact).  A table of the relational store is a      *)
(* sequence of rows in insertion order.                                    *)
(***************************************************************************)
EXTENDS Integers, Sequences, FiniteSets, TLC

VARIABLES
    rules,        \* AutoCategorizer.rules: ordered mapping, a sequence of rules
    categories,   \* table categories: row i has id i; the value is its name
    cls,          \* the last categorize_transaction call: inputs and result
    accounts,     \* table accounts: id -> balance
    opening,      \* the balance each account was opened with (never written)
    transactions, \* table transactions: the set of its rows
    resp,         \* the last request of the transactions API and its response
    rcall,        \* the last two calls of _get_or_create_category
    req,          \* requests in flight: per worker, its position and locals
    ev,           \* the last budget evaluation: inputs and derived values
    agg,          \* the last _calculate_current_spending call since a write
    budgets,      \* table budgets: the set of its rows
    rulesFile,    \* the rules file: the mapping in the order it is written
    trip,         \* progress of an add / get_all / delete sequence on a rule
    sresp,        \* the last call of the rule store, as its caller sees it
    sheets        \* the last export to the spreadsheet: the call, its outcome

varsClassifier == <<rules, categories, cls>>

varsLedger == <<accounts, opening, transactions, resp>>

varsResolver == <<rcall, req>>

varsBudget == <<ev, agg, budgets>>

varsStore == <<rulesFile, trip, sresp>>

varsSheets == <<sheets>>

vars == <<rules, categories, cls, accounts, opening, transactions, resp,
          rcall, req, ev, agg, budgets, rulesFile, trip, sresp, sheets>>

\* Parts of the state a specification leaves alone

LedgerIdle ==
    /\ accounts = <<>>
    /\ opening = <<>>
    /\ transactions = {}
    /\ resp = [op |-> "none"]

ResolverIdle ==
    /\ rcall = [op |-> "none"]
    /\ req = <<>>

BudgetIdle ==
    /\ ev = [op |-> "none"]
    /\ agg = [op |-> "none"]
    /\ budgets = {}

StoreIdle ==
    /\ rulesFile = <<>>
    /\ trip = [stage |-> 0]
    /\ sresp = [op |-> "none"]

SheetsIdle == sheets = [op |-> "none"]

\* Python's None, for an optional string (a value no text equals)
None == <<"None">>

\* Python's None, for an optional row id (ids start at 1, and 0 is falsy too)
NoId == 0

\* ------------------------------------------------------------------ text

\* str.lower() on one character
LowerChar(c) ==
    CASE c = "A" -> "a"
      [] c = "B" -> "b"
      [] OTHER -> c

\* str.lower()
Lower(s) == [i \in 1..Len(s) |-> LowerChar(s[i])]

RECURSIVE LStrip(_)
\* str.lstrip(): leading whitespace removed
LStrip(s) ==
    IF s # <<>> /\ Head(s) = " " THEN LStrip(Tail(s)) ELSE s

RECURSIVE RStrip(_)
\* str.rstrip(): trailing whitespace removed
RStrip(s) ==
    IF s # <<>> /\ s[Len(s)] = " " THEN RStrip(SubSeq(s, 1, Len(s) - 1)) ELSE s

\* str.strip()
Strip(s) == RStrip(LStrip(s))

\* merchant or '' / description or ''
OrEmpty(s) == IF s = None THEN <<>> ELSE s

\* not s, for an optional string: None and "" are falsy
Falsy(s) == s = None \/ s = <<>>

\* f"{merchant or ''} {description or ''}".lower().strip()
TextToAnalyze(merchant, description) ==
    Strip(Lower(OrEmpty(merchant) \o <<" ">> \o OrEmpty(description)))

\* keyword in text: substring containment
Contains(text, kw) ==
    \E i \in 1..(Len(text) + 1) :
        /\ i + Len(kw) - 1 <= Len(text)
        /\ SubSeq(text, i, i + Len(kw) - 1) = kw

\* A pattern is a sequence of tokens: a literal character, or ".*"
Star == ".*"

RECURSIVE MatchHere(_, _)
\* re.match: the pattern matches a prefix of the text
MatchHere(pat, text) ==
    IF pat = <<>> THEN TRUE
    ELSE IF Head(pat) = Star
         THEN \E k \in 0..Len(text) :
                  MatchHere(Tail(pat), SubSeq(text, k + 1, Len(text)))
         ELSE /\ text # <<>>
              /\ LowerChar(Head(text)) = LowerChar(Head(pat))
              /\ MatchHere(Tail(pat), Tail(text))

\* pattern.lower(): literals lower-cased, ".*" unchanged
LowerPattern(pat) ==
    [i \in 1..Len(pat) |-> IF pat[i] = Star THEN Star ELSE LowerChar(pat[i])]

\* re.search(pattern.lower(), text, re.IGNORECASE): a match anywhere
Search(pat, text) ==
    \E k \in 0..Len(text) :
        MatchHere(LowerPattern(pat), SubSeq(text, k + 1, Len(text)))

\* AutoCategorizer._matches_rule
MatchesRule(text, rule) ==
    \/ \E i \in 1..Len(rule.keywords) : Contains(text, Lower(rule.keywords[i]))
    \/ \E i \in 1..Len(rule.patterns) : Search(rule.patterns[i], text)

\* ------------------------------------------------------- category resolver

\* Variant of the lookup that finds no row: every call inserts
LookupCategoryNever(cats, name) == NoId

\* db.query(Category).filter(Category.name == category_name).first():
\* the id of the first row with that name, None when there is none
LookupCategory(cats, name) ==
    IF \E i \in 1..Len(cats) : cats[i] = name
    THEN CHOOSE i \in 1..Len(cats) :
             /\ cats[i] = name
             /\ \A j \in 1..(i - 1) : cats[j] # name
    ELSE NoId

\* db.add(Category(name=category_name, is_active=True)); db.commit():
\* a new row, its id the next of the table
InsertCategory(cats, name) == Append(cats, name)

\* AutoCategorizer._get_or_create_category run without interruption.
\* dbError: the session is None or the query/commit raised (rollback, None).
GetOrCreateCategory(cats, name, dbError) ==
    IF dbError THEN [cats |-> cats, id |-> NoId]
    ELSE IF LookupCategory(cats, name) # NoId
         THEN [cats |-> cats, id |-> LookupCategory(cats, name)]
         ELSE [cats |-> InsertCategory(cats, name), id |-> Len(cats) + 1]

\* -------------------------------------------------------------- classifier

RECURSIVE CategorizeFromStopAtFirst(_, _, _, _, _)
\* Variant of the loop that returns at the first matching rule whatever the
\* outcome of resolving its category, and tries no further rule
CategorizeFromStopAtFirst(i, text, rs, cats, fail) ==
    IF i > Len(rs) THEN [cats |-> cats, id |-> NoId]
    ELSE IF MatchesRule(text, rs[i])
         THEN IF rs[i].category_name # ""
              THEN GetOrCreateCategory(cats, rs[i].category_name, i \in fail)
              ELSE [cats |-> cats, id |-> NoId]
         ELSE CategorizeFromStopAtFirst(i + 1, text, rs, cats, fail)

RECURSIVE CategorizeFrom(_, _, _, _, _)
\* the loop of categorize_transaction from rule i on: a rule that matches,
\* has a truthy category_name and resolves to a category returns its id
CategorizeFrom(i, text, rs, cats, fail) ==
    IF i > Len(rs) THEN [cats |-> cats, id |-> NoId]
    ELSE IF MatchesRule(text, rs[i]) /\ rs[i].category_name # ""
         THEN LET r == GetOrCreateCategory(cats, rs[i].category_name, i \in fail)
              IN  IF r.id # NoId THEN r
                  ELSE CategorizeFrom(i + 1, text, rs, r.cats, fail)
         ELSE CategorizeFrom(i + 1, text, rs, cats, fail)

\* Variant of categorize_transaction without the test of the stripped text:
\* a whitespace-only input goes on to the rules
CategorizeTransactionNoTextGuard(merchant, description, rs, cats, fail) ==
    IF Falsy(merchant) /\ Falsy(description)
    THEN [cats |-> cats, id |-> NoId]
    ELSE CategorizeFrom(1, TextToAnalyze(merchant, description), rs, cats, fail)

\* AutoCategorizer.categorize_transaction; fail is the set of rule positions
\* whose category resolution fails in this call
CategorizeTransaction(merchant, description, rs, cats, fail) ==
    IF Falsy(merchant) /\ Falsy(description)
    THEN [cats |-> cats, id |-> NoId]
    ELSE IF TextToAnalyze(merchant, description) = <<>>
         THEN [cats |-> cats, id |-> NoId]
         ELSE CategorizeFrom(1, TextToAnalyze(merchant, description), rs, cats, fail)

\* ------------------------------------------------- classifier: the inputs

\* Longest rule table the classifier is started with
MaxRules == 2

Rule(n, kws, pats, cat) ==
    [name |-> n, keywords |-> kws, patterns |-> pats, category_name |-> cat]

\* Rules the tables are built from (a rule's name is its key in the mapping)
RulePool ==
    { Rule(1, << <<"a">> >>, <<>>, "Food"),
      Rule(2, << <<"B", "a">> >>, << <<"A", "b">> >>, "Shop"),
      Rule(3, <<>>, << <<"a", Star, "b">> >>, "Fuel"),
      Rule(4, << <<"a">> >>, <<>>, "") }

\* Rule tables: sequences of rules with distinct names
RuleTables ==
    { t \in UNION { [1..n -> RulePool] : n \in 0..MaxRules } :
        \A i, j \in 1..Len(t) : i # j => t[i].name # t[j].name }

Merchants == { None, <<>>, <<" ">>, <<"a">>, <<"A", "b">>, <<"b">> }

Descriptions == { None, <<" ">>, <<"b">>, <<"B", "a">> }

\* an input that is absent, empty or whitespace only
Blank(s) == s = None \/ \A i \in 1..Len(s) : s[i] = " "

InitClassifier ==
    /\ rules \in RuleTables
    /\ categories = <<>>
    /\ cls = [op |-> "none"]
    /\ LedgerIdle
    /\ ResolverIdle
    /\ BudgetIdle
    /\ StoreIdle
    /\ SheetsIdle

\* One call of categorize_transaction
Categorize ==
    \E merchant \in Merchants, description \in Descriptions,
       fail \in SUBSET (1..Len(rules)) :
        LET r == CategorizeTransaction(merchant, description, rules, categories, fail)
        IN  /\ cls' = [op |-> "categorize",
                       text |-> TextToAnalyze(merchant, description),
                       empty |-> Falsy(merchant) /\ Falsy(description),
                       blank |-> Blank(merchant) /\ Blank(description),
                       fail |-> fail,
                       result |-> r.id]
            /\ categories' = r.cats
            /\ UNCHANGED <<rules, varsLedger, varsResolver, varsBudget, varsStore, varsSheets>>

NextClassifier == Categorize

SpecClassifier == InitClassifier /\ [][NextClassifier]_vars

\* -------------------------------------- classifier: rules that match any text

\* Rules of the tables below: one whose pattern ".*" matches every text, the
\* empty one too
AnyTextRulePool ==
    { Rule(1, << <<"a">> >>, <<>>, "Food"),
      Rule(5, <<>>, << <<Star>> >>, "Misc") }

AnyTextRuleTables ==
    { t \in UNION { [1..n -> AnyTextRulePool] : n \in 0..2 } :
        \A i, j \in 1..Len(t) : i # j => t[i].name # t[j].name }

InitAnyText ==
    /\ rules \in AnyTextRuleTables
    /\ categories = <<>>
    /\ cls = [op |-> "none"]
    /\ LedgerIdle
    /\ ResolverIdle
    /\ BudgetIdle
    /\ StoreIdle
    /\ SheetsIdle

NextAnyText == Categorize

SpecAnyText == InitAnyText /\ [][NextAnyText]_vars

\* --------------------------------------------------- classifier: the claims

\* C12: categorize_transaction returns no match whenever merchant and
\* description are both absent, empty or whitespace only, whatever the rule
\* table, and the call creates no category.
C12_BlankInputNoMatch ==
    [][ (cls'.op = "categorize" /\ cls'.blank) =>
           /\ cls'.result = NoId
           /\ categories' = categories ]_vars

\* A whitespace-only input got past the first guard, with a rule in the table
\* that matches the empty text, and no match was returned
C12_Witness ==
    /\ cls.op = "categorize"
    /\ cls.blank
    /\ ~cls.empty
    /\ \E i \in 1..Len(rules) : MatchesRule(<<>>, rules[i])
    /\ cls.result = NoId


\* The positions of the rules of the table that match the analysed text
MatchingRules == { i \in 1..Len(rules) : MatchesRule(cls.text, rules[i]) }

\* The matching rules that can have an effect in the last call: a non-empty
\* category_name, and a category resolution that did not fail
EffectiveRules ==
    { i \in MatchingRules : rules[i].category_name # "" /\ i \notin cls.fail }

Least(S) == CHOOSE i \in S : \A j \in S : i <= j

\* a call that got past the two emptiness guards
Analysed == cls.op = "categorize" /\ ~cls.empty /\ cls.text # <<>>

\* C1 as stated: a non-empty text's result is the category of the first
\* matching rule of the table, never the category of a later rule, whatever
\* the first matching rule's category_name and its resolution.
C1_FirstMatchNeverLater ==
    (Analysed /\ cls.result # NoId) =>
        /\ MatchingRules # {}
        /\ categories[cls.result] = rules[Least(MatchingRules)].category_name

\* C1 amended: the result is the category of the first rule, in table order,
\* that matches the text, has a non-empty category_name and whose category is
\* resolved; matching rules before it that lack a name or fail to resolve are
\* skipped, and no rule after it is tried. Without such a rule: no match.
C1_FirstEffectiveMatchWins ==
    Analysed =>
        IF EffectiveRules = {}
        THEN cls.result = NoId
        ELSE /\ cls.result # NoId
             /\ categories[cls.result] = rules[Least(EffectiveRules)].category_name
             /\ cls.result = LookupCategory(categories, categories[cls.result])

\* Two rules match, the first of them has no category_name or fails to
\* resolve, and the call returned a category
C1_Witness ==
    /\ Analysed
    /\ cls.result # NoId
    /\ Cardinality(MatchingRules) >= 2
    /\ Least(MatchingRules) \notin EffectiveRules

\* ------------------------------------------------------------------ ledger

\* TransactionTypeSchema / TransactionType: the values of the members
TypeValues == {"income", "expense", "transfer"}

\* TRANSACTION_TYPE_MAP.get(v.lower(), v.upper()) of create_transaction: the
\* text stored in the column is the member's name
TRANSACTION_TYPE_MAP(v) ==
    CASE v = "income" -> "INCOME"
      [] v = "expense" -> "EXPENSE"
      [] v = "transfer" -> "TRANSFER"

\* transaction_type.value of a row: the value of the member its column holds
TypeValue(stored) ==
    CASE stored \in {"INCOME", "income"} -> "income"
      [] stored \in {"EXPENSE", "expense"} -> "expense"
      [] stored \in {"TRANSFER", "transfer"} -> "transfer"

\* The column type turns a stored text into a member of TransactionType when
\* a row is loaded: a text that is no member name raises LookupError
Loadable(stored) == stored \in {"INCOME", "EXPENSE", "TRANSFER"}

\* Variant of the reversal with the signs of the application: the old effect
\* is applied a second time instead of being undone
ReverseEffectWrongSign(balance, typeValue, amount) ==
    IF typeValue = "income" THEN balance + amount
    ELSE IF typeValue = "expense" THEN balance - amount
    ELSE balance

\* "Reverse old transaction effect" of update_transaction, and the balance
\* update of delete_transaction
ReverseEffect(balance, typeValue, amount) ==
    IF typeValue = "income" THEN balance - amount
    ELSE IF typeValue = "expense" THEN balance + amount
    ELSE balance

\* Variant of the application in which a transfer debits the account
ApplyEffectTransferDebits(balance, typeValue, amount) ==
    IF typeValue = "income" THEN balance + amount
    ELSE balance - amount

\* "Apply new transaction effect" of update_transaction
ApplyEffect(balance, typeValue, amount) ==
    IF typeValue = "income" THEN balance + amount
    ELSE IF typeValue = "expense" THEN balance - amount
    ELSE balance

\* db.query(Transaction).filter(Transaction.id == transaction_id).first()
HasTransaction(id) == \E t \in transactions : t.id = id

\* the row of table txs with that id
RowIn(txs, id) == CHOOSE t \in txs : t.id = id

RowById(id) == RowIn(transactions, id)

\* The id the store gives a new row: one more than the largest in the table
NextTransactionId ==
    IF transactions = {} THEN 1
    ELSE (CHOOSE i \in {t.id : t \in transactions} :
              \A t \in transactions : t.id <= i) + 1

\* The outcomes of an export to the spreadsheet: the rows are written, the
\* service raises, or there is no client (no credentials, no spreadsheet)
ExportOutcomes == {"ok", "fails", "unavailable"}

\* Variant of the export whose failure reaches the handler
SyncToSheetsRaises(handler, export) ==
    [raised |-> export = "fails",
     sheets |-> [op |-> handler, export |-> export]]

\* The export step of a handler: the call of GoogleSheetsService under the
\* handler's inner try/except, which logs what the call raises. The content
\* of the document is not part of the model.
SyncToSheets(handler, export) ==
    [raised |-> FALSE, sheets |-> [op |-> handler, export |-> export]]

\* Variant of create_transaction that categorizes whatever the caller supplied
CreateTransactionAlwaysCategorizes(account_id, amount, ttype, category_id, merchant, description, timestamp, fail, err, sync_to_sheets, export) ==
    IF account_id \notin DOMAIN accounts
    THEN /\ resp' = [op |-> "create", status |-> 404]
         /\ UNCHANGED <<accounts, opening, transactions, categories, cls, rules,
                        sheets>>
    ELSE LET c == CategorizeTransaction(merchant, description, rules,
                                        categories, fail)
             tx == [id |-> NextTransactionId,
                    account_id |-> account_id,
                    amount |-> amount,
                    transaction_type |-> TRANSACTION_TYPE_MAP(ttype),
                    category_id |-> IF c.id # NoId THEN c.id ELSE category_id,
                    timestamp |-> timestamp]
             sync == SyncToSheets("create_transaction", export)
             exported == sync_to_sheets /\ err # "commit"
         IN  /\ categories' = c.cats
             /\ transactions' = IF err = "commit" THEN transactions
                                ELSE transactions \cup {tx}
             /\ sheets' = IF exported THEN sync.sheets ELSE sheets
             /\ resp' = [op |-> "create", err |-> err,
                         status |-> IF err = "none" /\ ~(exported /\ sync.raised)
                                    THEN 200 ELSE 500]
             /\ UNCHANGED <<accounts, opening, cls, rules>>

\* POST /api/transactions: create_transaction.
\* fail: the rule positions whose category resolution fails;
\* err: "none", or where the handler raises: "commit" (the commit of the new
\* row), "after" (past the commit and the export: building the response);
\* sync_to_sheets: the query parameter; export: the outcome of the export
CreateTransaction(account_id, amount, ttype, category_id, merchant, description, timestamp, fail, err, sync_to_sheets, export) ==
    IF account_id \notin DOMAIN accounts
    THEN /\ resp' = [op |-> "create", status |-> 404]
         /\ UNCHANGED <<accounts, opening, transactions, categories, cls, rules,
                        sheets>>
    ELSE LET c == IF category_id = NoId
                  THEN CategorizeTransaction(merchant, description, rules,
                                             categories, fail)
                  ELSE [cats |-> categories, id |-> category_id]
             tx == [id |-> NextTransactionId,
                    account_id |-> account_id,
                    amount |-> amount,
                    transaction_type |-> TRANSACTION_TYPE_MAP(ttype),
                    category_id |-> c.id,
                    timestamp |-> timestamp]
             sync == SyncToSheets("create_transaction", export)
             exported == sync_to_sheets /\ err # "commit"
         IN  /\ categories' = c.cats
             /\ transactions' = IF err = "commit" THEN transactions
                                ELSE transactions \cup {tx}
             /\ sheets' = IF exported THEN sync.sheets ELSE sheets
             /\ resp' = [op |-> "create", err |-> err,
                         status |-> IF err = "none" /\ ~(exported /\ sync.raised)
                                    THEN 200 ELSE 500]
             /\ UNCHANGED <<accounts, opening, cls, rules>>

\* the query for the row with that id raises: the row's stored type cannot
\* be loaded
QueryRaises(id) ==
    HasTransaction(id) /\ ~Loadable(RowById(id).transaction_type)

\* PUT /api/transactions/{id}: update_transaction.
\* keys: the fields of update_data; raises: the query or the commit fails
\* (rollback). A missing row raises the 404 inside the try block, which the
\* handler's except Exception turns into a 500. setattr stores the schema
\* member as given: its value, not mapped to the member's name as in create.
UpdateTransaction(id, keys, amount, ttype, category_id, timestamp, raises) ==
    IF ~HasTransaction(id) \/ QueryRaises(id) \/ raises
    THEN /\ resp' = [op |-> "update", status |-> 500,
                     missing |-> ~HasTransaction(id) /\ ~raises]
         /\ UNCHANGED <<accounts, opening, transactions, categories, cls, rules>>
    ELSE LET old == RowById(id)
             old_amount == old.amount
             old_type == old.transaction_type
             new == [old EXCEPT
                       !.amount = IF "amount" \in keys THEN amount ELSE @,
                       !.transaction_type =
                           IF "transaction_type" \in keys THEN ttype ELSE @,
                       !.category_id =
                           IF "category_id" \in keys THEN category_id ELSE @,
                       !.timestamp =
                           IF "timestamp" \in keys THEN timestamp ELSE @]
             balance == accounts[old.account_id]
         IN  /\ transactions' = (transactions \ {old}) \cup {new}
             /\ accounts' =
                  IF "amount" \in keys \/ "transaction_type" \in keys
                  THEN [accounts EXCEPT ![old.account_id] =
                          ApplyEffect(
                            ReverseEffect(balance, TypeValue(old_type), old_amount),
                            TypeValue(new.transaction_type), new.amount)]
                  ELSE accounts
             /\ resp' = [op |-> "update", status |-> 200, id |-> id,
                         old_type |-> TypeValue(old_type),
                         old_amount |-> old_amount]
             /\ UNCHANGED <<opening, categories, cls, rules>>

\* Variant of delete_transaction that removes the row and leaves the balance
DeleteTransactionKeepsBalance(id, raises) ==
    IF ~HasTransaction(id) \/ QueryRaises(id) \/ raises
    THEN /\ resp' = [op |-> "delete", status |-> 500,
                     missing |-> ~HasTransaction(id) /\ ~raises]
         /\ UNCHANGED <<accounts, opening, transactions, categories, cls, rules>>
    ELSE /\ transactions' = transactions \ {RowById(id)}
         /\ resp' = [op |-> "delete", status |-> 200, id |-> id]
         /\ UNCHANGED <<accounts, opening, categories, cls, rules>>

\* DELETE /api/transactions/{id}: delete_transaction. raises: the query or the
\* commit fails (rollback); the 404 of a missing row is raised inside the try
\* block and answered 500 as well
DeleteTransaction(id, raises) ==
    IF ~HasTransaction(id) \/ QueryRaises(id) \/ raises
    THEN /\ resp' = [op |-> "delete", status |-> 500,
                     missing |-> ~HasTransaction(id) /\ ~raises]
         /\ UNCHANGED <<accounts, opening, transactions, categories, cls, rules>>
    ELSE LET row == RowById(id)
         IN  /\ accounts' = [accounts EXCEPT ![row.account_id] =
                   ReverseEffect(@, TypeValue(row.transaction_type), row.amount)]
             /\ transactions' = transactions \ {row}
             /\ resp' = [op |-> "delete", status |-> 200, id |-> id]
             /\ UNCHANGED <<opening, categories, cls, rules>>

\* GET /api/transactions/{id}: get_transaction. A missing row is answered
\* 404; an exception of the query is not caught by the handler and the
\* framework answers 500. Nothing is written.
GetTransaction(id, raises) ==
    /\ resp' = IF raises \/ QueryRaises(id)
               THEN [op |-> "get", status |-> 500, missing |-> FALSE]
               ELSE IF ~HasTransaction(id)
                    THEN [op |-> "get", status |-> 404, missing |-> TRUE]
                    ELSE [op |-> "get", status |-> 200, missing |-> FALSE]
    /\ UNCHANGED <<accounts, opening, transactions, categories, cls, rules>>

\* ------------------------------------------------------ ledger: the inputs

\* Most rows the table transactions holds at a time
MaxTx == 2

AccountIds == {1}

\* the account ids of requests: those of the table, and one no row has
RequestedAccountIds == AccountIds \cup {9}

OpeningBalances == {1000}

\* amounts of transactions: TransactionBase.amount, gt=0
Amounts == {100, 150}

\* datetime values, as <<year, month, day, second of the day>>
LedgerTimestamps == { <<2024, 2, 1, 0>> }

\* the rule table of the categorizer while the ledger is exercised
LedgerRules == << Rule(1, << <<"a">> >>, <<>>, "Food") >>

\* balances the exploration follows
BalanceRange == 950..1050

\* the sets of fields an update request carries: any of amount and
\* transaction_type, or category_id alone
UpdateKeys == SUBSET {"amount", "transaction_type"} \cup {{"category_id"}}

\* the values of a field in a request: one placeholder when the field is unset
ValuesIf(key, keys, values) ==
    IF key \in keys THEN values ELSE {CHOOSE v \in values : TRUE}

InitLedger ==
    /\ rules = LedgerRules
    /\ categories = <<>>
    /\ cls = [op |-> "none"]
    /\ accounts \in [AccountIds -> OpeningBalances]
    /\ opening = accounts
    /\ transactions = {}
    /\ resp = [op |-> "none"]
    /\ ResolverIdle
    /\ BudgetIdle
    /\ StoreIdle
    /\ SheetsIdle

\* the requests of the ledger's exploration carry sync_to_sheets=false
Create ==
    \E account_id \in RequestedAccountIds, amount \in Amounts,
       ttype \in TypeValues, timestamp \in LedgerTimestamps,
       err \in {"none", "commit", "after"} :
        /\ NextTransactionId <= MaxTx
        /\ CreateTransaction(account_id, amount, ttype, NoId, None, None,
                             timestamp, {}, err, FALSE, "unavailable")
        /\ UNCHANGED <<varsResolver, varsBudget, varsStore>>

Update ==
    \E id \in 1..(MaxTx + 1), keys \in UpdateKeys, raises \in BOOLEAN :
      \E amount \in ValuesIf("amount", keys, Amounts),
         ttype \in ValuesIf("transaction_type", keys, TypeValues),
         timestamp \in LedgerTimestamps :
        /\ \A a \in DOMAIN accounts : accounts[a] \in BalanceRange
        /\ UpdateTransaction(id, keys, amount, ttype, NoId, timestamp, raises)
        /\ UNCHANGED <<varsResolver, varsBudget, varsStore, varsSheets>>

Delete ==
    \E id \in 1..(MaxTx + 1), raises \in BOOLEAN :
        /\ \A a \in DOMAIN accounts : accounts[a] \in BalanceRange
        /\ DeleteTransaction(id, raises)
        /\ UNCHANGED <<varsResolver, varsBudget, varsStore, varsSheets>>

Get ==
    \E id \in 1..(MaxTx + 1), raises \in BOOLEAN :
        /\ GetTransaction(id, raises)
        /\ UNCHANGED <<varsResolver, varsBudget, varsStore, varsSheets>>

NextLedger == Create \/ Update \/ Delete \/ Get

SpecLedger == InitLedger /\ [][NextLedger]_vars

\* ------------------------------------------------------ ledger: the claims

\* The effect of a transaction on its account's balance, as specified:
\* +amount for income, -amount for expense, 0 for transfer
Effect(typeValue, amount) ==
    CASE typeValue = "income" -> amount
      [] typeValue = "expense" -> 0 - amount
      [] typeValue = "transfer" -> 0

RECURSIVE SumEffects(_)
\* The sum of the effects of a set of transaction rows
SumEffects(txs) ==
    IF txs = {} THEN 0
    ELSE LET t == CHOOSE x \in txs : TRUE
         IN  Effect(TypeValue(t.transaction_type), t.amount)
               + SumEffects(txs \ {t})

\* C2 as stated: every account's balance is its opening balance plus the
\* amounts of its existing income transactions minus the amounts of its
\* existing expense transactions, after any sequence of create, update and
\* delete requests.
C2_BalanceIsOpeningPlusEffects ==
    \A a \in DOMAIN accounts :
        accounts[a] = opening[a]
                        + SumEffects({t \in transactions : t.account_id = a})

\* C3: a successful update_transaction moves the balance of the row's account
\* by exactly -effect(old type, old amount) + effect(new type, new amount),
\* the old values being those the row held before the edit.
C3_UpdateReversesOldAppliesNew ==
    [][ (resp'.op = "update" /\ resp'.status = 200) =>
          LET old == RowIn(transactions, resp'.id)
              new == RowIn(transactions', resp'.id)
          IN  /\ new.account_id = old.account_id
              /\ accounts'[old.account_id] =
                   accounts[old.account_id]
                     - Effect(TypeValue(old.transaction_type), old.amount)
                     + Effect(TypeValue(new.transaction_type), new.amount)
    ]_vars

\* An update has just edited a transaction from expense/100 to income/150
C3_Witness ==
    /\ resp.op = "update"
    /\ resp.status = 200
    /\ resp.old_type = "expense"
    /\ resp.old_amount = 100
    /\ TypeValue(RowById(resp.id).transaction_type) = "income"
    /\ RowById(resp.id).amount = 150
    /\ accounts[RowById(resp.id).account_id] = opening[RowById(resp.id).account_id] + 250

\* C13: a successful delete_transaction removes exactly the row and moves the
\* balance of its account by the inverse of the row's effect (-amount for
\* income, +amount for expense, 0 for transfer), in one step; a delete that
\* fails changes neither the table nor a balance.
C13_DeleteReversesThenRemoves ==
    [][ /\ (resp'.op = "delete" /\ resp'.status = 200) =>
              /\ HasTransaction(resp'.id)
              /\ transactions' = transactions \ {RowById(resp'.id)}
              /\ \A t \in transactions' : t.id # resp'.id
              /\ accounts' = [accounts EXCEPT ![RowById(resp'.id).account_id] =
                    @ - Effect(TypeValue(RowById(resp'.id).transaction_type),
                               RowById(resp'.id).amount)]
        /\ (resp'.op = "delete" /\ resp'.status # 200) =>
              /\ transactions' = transactions
              /\ accounts' = accounts
      ]_vars

\* An expense of 100 has just been deleted: the table is empty and the
\* balance is 100 above the one the account was opened with
C13_Witness ==
    /\ resp.op = "delete"
    /\ resp.status = 200
    /\ transactions = {}
    /\ \E a \in DOMAIN accounts : accounts[a] = opening[a] + 100

\* the last request looked up a row by an id that no row has, and nothing
\* else went wrong
Missing(r) == "missing" \in DOMAIN r /\ r.missing

\* C16 as stated: every operation that looks up a budget or a transaction by
\* id answers not found (404), not the internal error (500), when no row has
\* the id, and changes no stored state.
C16_MissingRowIsNotFound ==
    [][ Missing(resp') =>
           /\ resp'.status = 404
           /\ UNCHANGED <<accounts, transactions, budgets>> ]_vars

\* ----------------------------------------------------- bulk categorization

\* bulk_categorize_transactions works in one session of the database. A
\* session is [cats, rows, pending]: the committed tables categories and
\* transactions, and the category_id assignments made to loaded rows and not
\* yet committed. db.commit() writes the pending assignments, db.rollback()
\* discards them. A row of the ledger is [id, category_id, merchant,
\* description] here.

\* db.commit(): the pending assignments reach the table
Commit(rows, pending) ==
    { IF \E p \in pending : p.id = t.id
      THEN [t EXCEPT !.category_id =
                       (CHOOSE p \in pending : p.id = t.id).category_id]
      ELSE t : t \in rows }

\* _get_or_create_category in the session: a category that is found changes
\* nothing; a new one is added and db.commit() commits the session; an
\* exception of the query or the commit is caught and db.rollback() rolls
\* the session back
SessionGetOrCreate(s, name, dbError) ==
    LET r == GetOrCreateCategory(s.cats, name, dbError)
    IN  IF dbError
        THEN [s |-> [s EXCEPT !.pending = {}], id |-> NoId]
        ELSE IF r.cats = s.cats
        THEN [s |-> s, id |-> r.id]
        ELSE [s |-> [cats |-> r.cats,
                     rows |-> Commit(s.rows, s.pending),
                     pending |-> {}],
              id |-> r.id]

RECURSIVE SessionCategorizeFrom(_, _, _, _, _)
\* the loop of categorize_transaction from rule i on, in the session
SessionCategorizeFrom(i, text, rs, s, fail) ==
    IF i > Len(rs) THEN [s |-> s, id |-> NoId]
    ELSE IF MatchesRule(text, rs[i]) /\ rs[i].category_name # ""
         THEN LET r == SessionGetOrCreate(s, rs[i].category_name, i \in fail)
              IN  IF r.id # NoId THEN r
                  ELSE SessionCategorizeFrom(i + 1, text, rs, r.s, fail)
         ELSE SessionCategorizeFrom(i + 1, text, rs, s, fail)

\* categorize_transaction in the session
SessionCategorize(merchant, description, rs, s, fail) ==
    IF Falsy(merchant) /\ Falsy(description)
    THEN [s |-> s, id |-> NoId]
    ELSE IF TextToAnalyze(merchant, description) = <<>>
         THEN [s |-> s, id |-> NoId]
         ELSE SessionCategorizeFrom(1, TextToAnalyze(merchant, description),
                                    rs, s, fail)

\* db.query(Transaction).filter(Transaction.category_id.is_(None))
\* .limit(limit).all(): the rows without category, in the order of their ids
Uncategorized(rows, limit) ==
    LET none == { t \in rows : t.category_id = NoId }
        all == CHOOSE q \in [1..Cardinality(none) -> none] :
                   \A i, j \in 1..Cardinality(none) :
                       i < j => q[i].id < q[j].id
    IN  SubSeq(all, 1, IF limit < Len(all) THEN limit ELSE Len(all))

RECURSIVE BulkFrom(_, _, _, _, _, _, _)
\* the loop of bulk_categorize_transactions from the k-th loaded row on, and
\* what follows it. failAt[k]: the rule positions whose category resolution
\* fails for row k; raiseAt: 0, or the step at which an exception reaches
\* the function's except clause (rollback, return 0): k for the
\* categorization of row k, Len(loaded) + 1 for the final commit
BulkFrom(k, loaded, rs, s, count, failAt, raiseAt) ==
    IF k > Len(loaded)
    THEN IF count > 0
         THEN IF raiseAt = k
              THEN [s |-> [s EXCEPT !.pending = {}], returned |-> 0]
              ELSE [s |-> [s EXCEPT !.rows = Commit(s.rows, s.pending),
                                    !.pending = {}],
                    returned |-> count]
         ELSE [s |-> s, returned |-> count]
    ELSE IF raiseAt = k
    THEN [s |-> [s EXCEPT !.pending = {}], returned |-> 0]
    ELSE LET c == SessionCategorize(loaded[k].merchant, loaded[k].description,
                                    rs, s, failAt[k])
         IN  IF c.id # NoId
             THEN BulkFrom(k + 1, loaded, rs,
                           [c.s EXCEPT !.pending =
                               @ \cup {[id |-> loaded[k].id,
                                        category_id |-> c.id]}],
                           count + 1, failAt, raiseAt)
             ELSE BulkFrom(k + 1, loaded, rs, c.s, count, failAt, raiseAt)

\* AutoCategorizer.bulk_categorize_transactions(db, limit)
BulkCategorizeTransactions(rows, cats, rs, limit, failAt, raiseAt) ==
    BulkFrom(1, Uncategorized(rows, limit), rs,
             [cats |-> cats, rows |-> rows, pending |-> {}],
             0, failAt, raiseAt)

\* --------------------------------------------- bulk categorization: inputs

BulkIds == {1, 2}

\* rule 1 resolves to a category of the table, rule 2 to one that is not yet
\* in it
BulkRules ==
    << Rule(1, << <<"a">> >>, <<>>, "Food"),
       Rule(2, << <<"b">> >>, <<>>, "Shop") >>

\* merchants: one for each rule and one no rule matches
BulkMerchants == { <<"a">>, <<"b">>, <<"c">> }

\* the ledgers the call finds: rows with and without category (a row is
\* without when it was created before its rule, or while the resolution of
\* its category failed)
BulkLedgers ==
    { txs \in SUBSET [id : BulkIds, category_id : {NoId, 1},
                      merchant : BulkMerchants, description : {None}] :
        \A t, u \in txs : t.id = u.id => t = u }

InitBulk ==
    /\ rules = BulkRules
    /\ categories = <<"Food">>
    /\ cls = [op |-> "none"]
    /\ accounts = [a \in AccountIds |-> 1000]
    /\ opening = accounts
    /\ transactions \in BulkLedgers
    /\ resp = [op |-> "none"]
    /\ ResolverIdle
    /\ BudgetIdle
    /\ StoreIdle
    /\ SheetsIdle

BulkCategorize ==
    \E limit \in {1, 2}, failAt \in [BulkIds -> SUBSET {1, 2}],
       raiseAt \in 0..3 :
        LET r == BulkCategorizeTransactions(transactions, categories, rules,
                                            limit, failAt, raiseAt)
        IN  /\ transactions' = r.s.rows
            /\ categories' = r.s.cats
            /\ cls' = [op |-> "bulk", returned |-> r.returned]
            /\ UNCHANGED <<rules, accounts, opening, resp, varsResolver,
                           varsBudget, varsStore, varsSheets>>

NextBulk == BulkCategorize

SpecBulk == InitBulk /\ [][NextBulk]_vars

\* --------------------------------------------- bulk categorization: claims

\* C27 as stated: bulk_categorize_transactions returns the number of
\* transactions whose category_id changed from none to a category in the
\* ledger during the call, also when it ends in its error path and returns
\* 0, and it changes no transaction that already has a category.
C27_CountIsRowsCategorized ==
    [][ cls'.op = "bulk" =>
          /\ cls'.returned =
               Cardinality({ t \in transactions :
                               /\ t.category_id = NoId
                               /\ RowIn(transactions', t.id).category_id
                                      # NoId })
          /\ \A t \in transactions :
               t.category_id # NoId => t \in transactions' ]_vars

\* ------------------------------------------- ledger: create with a category

\* the category_id of a request: absent, or the id of a category of the table
SuppliedCategories == {NoId, 1}

InitSupplied ==
    /\ rules = BulkRules
    /\ categories = <<"Food">>
    /\ cls = [op |-> "none"]
    /\ accounts = [a \in AccountIds |-> 1000]
    /\ opening = accounts
    /\ transactions = {}
    /\ resp = [op |-> "none"]
    /\ ResolverIdle
    /\ BudgetIdle
    /\ StoreIdle
    /\ SheetsIdle

\* create_transaction; rcall keeps the request
SuppliedCreate ==
    \E category_id \in SuppliedCategories,
       merchant \in BulkMerchants \cup {None},
       fail \in SUBSET {1, 2}, err \in {"none", "commit"} :
        /\ NextTransactionId \in BulkIds
        /\ CreateTransaction(1, 100, "expense", category_id, merchant, None,
                             <<2024, 2, 1, 0>>, fail, err, FALSE,
                             "unavailable")
        /\ rcall' = [op |-> "create_transaction", category_id |-> category_id,
                     merchant |-> merchant, fail |-> fail]
        /\ UNCHANGED <<req, varsBudget, varsStore>>

NextSupplied == SuppliedCreate

SpecSupplied == InitSupplied /\ [][NextSupplied]_vars

\* no rule resolves a category for the merchant: none matches it, or the
\* resolution fails for each that does
NothingInferred(merchant, rs, fail) ==
    \/ merchant = None
    \/ \A i \in 1..Len(rs) :
          MatchesRule(TextToAnalyze(merchant, None), rs[i]) => i \in fail

\* C28: create_transaction runs auto-categorization only when the caller
\* supplied no category: a supplied category_id is stored unchanged and no
\* category row is created; and when no rule matches or the categorization
\* fails the transaction is still stored, with no category.
C28_SuppliedCategoryIsKept ==
    [][ ( /\ rcall'.op = "create_transaction"
          /\ resp'.op = "create"
          /\ resp'.err = "none" )
        => ( /\ resp'.status = 200
             /\ \E t \in transactions' :
                  /\ t \notin transactions
                  /\ transactions' = transactions \cup {t}
                  /\ rcall'.category_id # NoId =>
                        /\ t.category_id = rcall'.category_id
                        /\ categories' = categories
                  /\ ( /\ rcall'.category_id = NoId
                       /\ NothingInferred(rcall'.merchant, rules, rcall'.fail) )
                     => t.category_id = NoId ) ]_vars

\* a transaction was created with category 1 and a merchant that rule 2
\* matches: it holds category 1 and the category of rule 2 was not created
C28_Witness ==
    /\ rcall.op = "create_transaction"
    /\ rcall.category_id = 1
    /\ rcall.merchant = <<"b">>
    /\ rcall.fail = {}
    /\ resp = [op |-> "create", err |-> "none", status |-> 200]
    /\ \E t \in transactions : t.category_id = 1
    /\ categories = <<"Food">>

\* ------------------------------------------------- ledger: sync to the sheet

\* POST /api/transactions/sync-to-sheets. A row of the ledger is
\* [id, is_synced_to_sheets] here, and sheets.appended holds the ids of the
\* rows the Transactions sheet has received.

\* GoogleSheetsService.add_transaction: True when the row was appended; when
\* the initialisation or the append fails the exception is caught and False
\* is returned. It raises nothing.
AddTransaction(appended, id, outcome) ==
    IF outcome = "ok"
    THEN [raised |-> FALSE, returned |-> TRUE, appended |-> appended \cup {id}]
    ELSE [raised |-> FALSE, returned |-> FALSE, appended |-> appended]

\* query.all() of sync_transactions_to_sheets
SelectedForSync(rows, force_all) ==
    { t \in rows : force_all \/ ~t.is_synced_to_sheets }

\* the rows of the loop for which add_transaction did not raise: each is
\* marked and counted as synced, whatever add_transaction returned
MarkedSynced(selected, outcome) ==
    { t \in selected : ~AddTransaction({}, t.id, outcome[t.id]).raised }

\* sync_transactions_to_sheets. available: the service has a client;
\* outcome[id]: the outcome of the export of row id; raises: the query or
\* the commit raises (500, no flag is written)
SyncTransactionsToSheets(force_all, available, outcome, raises) ==
    IF ~available
    THEN /\ resp' = [op |-> "sync", status |-> 200, initialized |-> FALSE]
         /\ UNCHANGED <<transactions, sheets>>
    ELSE LET selected == SelectedForSync(transactions, force_all)
             marked == MarkedSynced(selected, outcome)
             exported == { t.id : t \in { u \in selected :
                               AddTransaction({}, u.id, outcome[u.id]).returned } }
         IN  /\ sheets' = [op |-> "sync",
                           appended |-> sheets.appended \cup exported]
             /\ transactions' =
                   IF raises THEN transactions
                   ELSE { IF t \in marked
                          THEN [t EXCEPT !.is_synced_to_sheets = TRUE]
                          ELSE t : t \in transactions }
             /\ resp' =
                   IF raises THEN [op |-> "sync", status |-> 500]
                   ELSE [op |-> "sync", status |-> 200, initialized |-> TRUE,
                         selected |-> { t.id : t \in selected },
                         exported |-> exported,
                         synced_count |-> Cardinality(marked),
                         failed_count |-> Cardinality(selected \ marked)]

\* the ids of the rows of the ledger
SinkIds == {1, 2, 3}

\* the outcomes of the export of one row
RowExportOutcomes == {"ok", "fails"}

InitSink ==
    /\ rules = <<>>
    /\ categories = <<>>
    /\ cls = [op |-> "none"]
    /\ accounts = [a \in AccountIds |-> 1000]
    /\ opening = accounts
    /\ transactions = {}
    /\ resp = [op |-> "none"]
    /\ ResolverIdle
    /\ BudgetIdle
    /\ StoreIdle
    /\ sheets = [op |-> "none", appended |-> {}]

\* create_transaction without export: the new row is not synced
SinkCreate ==
    /\ \E id \in SinkIds :
          /\ \A t \in transactions : t.id < id
          /\ transactions' = transactions \cup
                               {[id |-> id, is_synced_to_sheets |-> FALSE]}
    /\ resp' = [op |-> "create", err |-> "none", status |-> 200]
    /\ UNCHANGED <<varsClassifier, accounts, opening, varsResolver, varsBudget,
                   varsStore, sheets>>

SinkSync ==
    \E force_all \in BOOLEAN, available \in BOOLEAN,
       outcome \in [SinkIds -> RowExportOutcomes], raises \in BOOLEAN :
        /\ SyncTransactionsToSheets(force_all, available, outcome, raises)
        /\ UNCHANGED <<varsClassifier, accounts, opening, varsResolver,
                       varsBudget, varsStore>>

NextSink == SinkCreate \/ SinkSync

SpecSink == InitSink /\ [][NextSink]_vars

\* C29 as stated: a transaction's is_synced_to_sheets is true only if a row
\* for it was appended to the sheet: sync_transactions_to_sheets marks no
\* transaction whose export did not succeed, and counts it as failed, not
\* as synced.
C29_SyncedOnlyIfAppended ==
    /\ \A t \in transactions :
         t.is_synced_to_sheets => t.id \in sheets.appended
    /\ ( resp.op = "sync" /\ resp.status = 200 /\ resp.initialized ) =>
         /\ resp.synced_count = Cardinality(resp.exported)
         /\ resp.failed_count = Cardinality(resp.selected \ resp.exported)

\* --------------------------------------- ledger: updates of other fields

\* the sets of fields of the update requests: with and without amount, never
\* transaction_type
FrameKeys ==
    { {"category_id"}, {"timestamp"}, {"category_id", "timestamp"},
      {"amount"}, {"amount", "timestamp"} }

InitFrame ==
    /\ rules = <<>>
    /\ categories = <<"Food">>
    /\ cls = [op |-> "none"]
    /\ accounts = [a \in AccountIds |-> 1000]
    /\ opening = accounts
    /\ transactions = {}
    /\ resp = [op |-> "none"]
    /\ ResolverIdle
    /\ BudgetIdle
    /\ StoreIdle
    /\ SheetsIdle

\* create_transaction of 100, of each type
FrameCreate ==
    \E ttype \in TypeValues :
        /\ NextTransactionId \in BulkIds
        /\ CreateTransaction(1, 100, ttype, NoId, None, None,
                             <<2024, 2, 1, 0>>, {}, "none", FALSE,
                             "unavailable")
        /\ rcall' = [op |-> "create_transaction"]
        /\ UNCHANGED <<req, varsBudget, varsStore>>

\* update_transaction; rcall keeps the fields of the request
FrameUpdate ==
    \E id \in BulkIds, keys \in FrameKeys :
      \E amount \in ValuesIf("amount", keys, Amounts) :
        /\ \A a \in DOMAIN accounts : accounts[a] \in BalanceRange
        /\ UpdateTransaction(id, keys, amount, "expense", 1,
                             <<2024, 3, 1, 0>>, FALSE)
        /\ rcall' = [op |-> "update_transaction", keys |-> keys]
        /\ UNCHANGED <<req, varsBudget, varsStore, varsSheets>>

NextFrame == FrameCreate \/ FrameUpdate

SpecFrame == InitFrame /\ [][NextFrame]_vars

\* C30: an update_transaction that sets neither amount nor transaction_type
\* leaves every account balance unchanged, and so does one that changes the
\* amount of a transaction that is and stays a transfer.
C30_OtherUpdatesKeepBalances ==
    [][ ( /\ rcall'.op = "update_transaction"
          /\ resp'.op = "update"
          /\ resp'.status = 200 )
        => LET old == RowById(resp'.id)
               new == RowIn(transactions', resp'.id)
           IN  /\ rcall'.keys \cap {"amount", "transaction_type"} = {}
                    => accounts' = accounts
               /\ ( /\ TypeValue(old.transaction_type) = "transfer"
                    /\ TypeValue(new.transaction_type) = "transfer" )
                    => accounts' = accounts ]_vars

\* the amount and the timestamp of a transfer of 100 have been changed and
\* the balance is the opening balance
C30_Witness ==
    /\ rcall = [op |-> "update_transaction", keys |-> {"amount", "timestamp"}]
    /\ resp.op = "update"
    /\ resp.status = 200
    /\ resp.old_type = "transfer"
    /\ resp.old_amount = 100
    /\ RowById(resp.id).amount = 150
    /\ RowById(resp.id).timestamp = <<2024, 3, 1, 0>>
    /\ accounts = opening

\* ------------------------------------------- category resolver: in sequence

\* Most rows the table categories holds
MaxCategories == 3

CategoryNames == {"Food", "Shop", "Fuel"}

InitResolver ==
    /\ rules = <<>>
    /\ categories = <<>>
    /\ cls = [op |-> "none"]
    /\ LedgerIdle
    /\ ResolverIdle
    /\ BudgetIdle
    /\ StoreIdle
    /\ SheetsIdle

\* One call of _get_or_create_category, run to its end before the next
Resolve ==
    \E name \in CategoryNames, dbError \in BOOLEAN :
        LET r == GetOrCreateCategory(categories, name, dbError)
        IN  /\ Len(r.cats) <= MaxCategories
            /\ categories' = r.cats
            /\ rcall' = [op |-> "resolve", name |-> name, id |-> r.id,
                         added |-> Len(r.cats) - Len(categories),
                         prev |-> IF rcall.op = "resolve"
                                  THEN [name |-> rcall.name, id |-> rcall.id]
                                  ELSE [name |-> "", id |-> NoId]]
            /\ UNCHANGED <<rules, cls, varsLedger, req, varsBudget, varsStore, varsSheets>>

NextResolver == Resolve

SpecResolver == InitResolver /\ [][NextResolver]_vars

\* The rows of the table categories that hold a name
RowsNamed(name) == { i \in 1..Len(categories) : categories[i] = name }

\* two calls in a row for one name, both returning a category
TwoCallsSameName ==
    /\ rcall.op = "resolve"
    /\ rcall.prev.name = rcall.name
    /\ rcall.prev.id # NoId
    /\ rcall.id # NoId

\* C5: of two calls of _get_or_create_category in a row for the same name,
\* each returning a category, the second returns the id the first returned
\* and adds no row, and exactly one row of the table holds the name.
C5_SecondCallReturnsSameRow ==
    TwoCallsSameName =>
        /\ rcall.id = rcall.prev.id
        /\ rcall.added = 0
        /\ Cardinality(RowsNamed(rcall.name)) = 1

\* The second of two calls for a name has returned, with other names in the
\* table
C5_Witness ==
    /\ TwoCallsSameName
    /\ Len(categories) >= 2
    /\ rcall.id >= 2

\* ---------------------------------------- category resolver: calls that race

\* The sessions that run _get_or_create_category at the same time
Workers == {1, 2}

RaceNames == {"Food", "Shop"}

InitRace ==
    /\ rules = <<>>
    /\ categories = <<>>
    /\ cls = [op |-> "none"]
    /\ LedgerIdle
    /\ rcall = [op |-> "none"]
    /\ req = [w \in Workers |-> [pc |-> "idle"]]
    /\ BudgetIdle
    /\ StoreIdle
    /\ SheetsIdle

\* a call begins; fresh: no row holds the name yet
RaceCall(w) ==
    \E name \in RaceNames :
        /\ req[w].pc = "idle"
        /\ req' = [req EXCEPT ![w] =
                     [pc |-> "query", name |-> name, id |-> NoId,
                      fresh |-> LookupCategory(categories, name) = NoId]]
        /\ UNCHANGED <<varsClassifier, varsLedger, rcall, varsBudget, varsStore, varsSheets>>

\* category = db.query(Category).filter(Category.name == category_name).first()
RaceQuery(w) ==
    /\ req[w].pc = "query"
    /\ LET found == LookupCategory(categories, req[w].name)
       IN  req' = [req EXCEPT ![w].pc = IF found # NoId THEN "done" ELSE "insert",
                              ![w].id = found]
    /\ UNCHANGED <<varsClassifier, varsLedger, rcall, varsBudget, varsStore, varsSheets>>

\* db.add(category); db.commit(); db.refresh(category)
RaceInsert(w) ==
    /\ req[w].pc = "insert"
    /\ Len(categories) < MaxCategories
    /\ categories' = InsertCategory(categories, req[w].name)
    /\ req' = [req EXCEPT ![w].pc = "done", ![w].id = Len(categories) + 1]
    /\ UNCHANGED <<rules, cls, varsLedger, rcall, varsBudget, varsStore, varsSheets>>

\* except Exception: db.rollback(); return None
RaceError(w) ==
    /\ req[w].pc \in {"query", "insert"}
    /\ req' = [req EXCEPT ![w].pc = "done", ![w].id = NoId]
    /\ UNCHANGED <<varsClassifier, varsLedger, rcall, varsBudget, varsStore, varsSheets>>

\* the call has returned; the session is free for the next
RaceReturn(w) ==
    /\ req[w].pc = "done"
    /\ req' = [req EXCEPT ![w] = [pc |-> "idle"]]
    /\ UNCHANGED <<varsClassifier, varsLedger, rcall, varsBudget, varsStore, varsSheets>>

NextRace ==
    \E w \in Workers :
        \/ RaceCall(w)
        \/ RaceQuery(w)
        \/ RaceInsert(w)
        \/ RaceError(w)
        \/ RaceReturn(w)

SpecRace == InitRace /\ [][NextRace]_vars

\* C4 as stated: when two calls of _get_or_create_category for one name that
\* no row held yet have both returned a category, one row holds the name and
\* both calls returned its id.
C4_RacingCallsCreateOneRow ==
    \A v, w \in Workers :
        ( /\ v # w
          /\ req[v].pc = "done" /\ req[w].pc = "done"
          /\ req[v].name = req[w].name
          /\ req[v].fresh /\ req[w].fresh
          /\ req[v].id # NoId /\ req[w].id # NoId )
        => /\ Cardinality(RowsNamed(req[v].name)) <= 1
           /\ req[v].id = req[w].id

\* --------------------------------------------------------- spend aggregator

\* str.split(sep) for a one-character separator: the parts between separators
RECURSIVE Split(_, _)
Split(s, sep) ==
    IF \A i \in 1..Len(s) : s[i] # sep THEN << s >>
    ELSE LET k == CHOOSE i \in 1..Len(s) :
                      s[i] = sep /\ \A j \in 1..(i - 1) : s[j] # sep
         IN  << SubSeq(s, 1, k - 1) >> \o Split(SubSeq(s, k + 1, Len(s)), sep)

DigitChars == <<"0", "1", "2", "3", "4", "5", "6", "7", "8", "9">>

IsDigit(c) == \E d \in 1..Len(DigitChars) : DigitChars[d] = c

DigitValue(c) == (CHOOSE d \in 1..Len(DigitChars) : DigitChars[d] = c) - 1

\* int(s) raises ValueError: not a non-empty run of decimal digits
IntRaises(s) == s = <<>> \/ \E i \in 1..Len(s) : ~IsDigit(s[i])

RECURSIVE IntOf(_)
\* int(s) for a run of decimal digits
IntOf(s) ==
    IF s = <<>> THEN 0
    ELSE 10 * IntOf(SubSeq(s, 1, Len(s) - 1)) + DigitValue(s[Len(s)])

\* datetime(year, month, 1) raises ValueError
DatetimeRaises(year, month) == year \notin 1..9999 \/ month \notin 1..12

\* datetime(year, month, 1): midnight of the first day
FirstOf(year, month) == <<year, month, 1, 0>>

\* a < b on datetime values <<year, month, day, second of the day>>
DatetimeLess(a, b) ==
    \E i \in 1..4 : a[i] < b[i] /\ \A j \in 1..(i - 1) : a[j] = b[j]

\* year, month_num = map(int, month.split('-')) and the date range of
\* _calculate_current_spending; ok is FALSE where the code raises
DateRange(month) ==
    LET parts == Split(month, "-")
    IN  IF Len(parts) # 2 \/ IntRaises(parts[1]) \/ IntRaises(parts[2])
        THEN [ok |-> FALSE]
        ELSE LET year == IntOf(parts[1])
                 month_num == IntOf(parts[2])
             IN  IF DatetimeRaises(year, month_num) THEN [ok |-> FALSE]
                 ELSE IF month_num = 12
                      THEN IF DatetimeRaises(year + 1, 1) THEN [ok |-> FALSE]
                           ELSE [ok |-> TRUE,
                                 start_date |-> FirstOf(year, month_num),
                                 end_date |-> FirstOf(year + 1, 1)]
                      ELSE [ok |-> TRUE,
                            start_date |-> FirstOf(year, month_num),
                            end_date |-> FirstOf(year, month_num + 1)]

RECURSIVE SumAmounts(_)
\* func.sum(Transaction.amount) over the selected rows (0 for none, by
\* "spending or 0.0")
SumAmounts(txs) ==
    IF txs = {} THEN 0
    ELSE LET t == CHOOSE x \in txs : TRUE
         IN  t.amount + SumAmounts(txs \ {t})

\* _calculate_current_spending; raises: the query fails. Every exception
\* ends in "return 0.0". The filter compares the column's stored text with
\* the text "expense": the column type maps only members and member names,
\* and binds any other string as it is.
CalculateCurrentSpending(txs, category_id, month, raises) ==
    LET range == DateRange(month)
    IN  IF ~range.ok \/ raises THEN 0
        ELSE SumAmounts({ t \in txs :
                 /\ t.category_id = category_id
                 /\ t.transaction_type = "expense"
                 /\ ~DatetimeLess(t.timestamp, range.start_date)
                 /\ DatetimeLess(t.timestamp, range.end_date) })

\* ---------------------------------------------- spend aggregator: the inputs

\* category ids of the transactions and of the aggregator's calls
SpendCategories == {1, 2}

\* the ids the rows of the table take while the aggregator is exercised
SpendIds == {1, 2}

SpendTimestamps ==
    { <<2024, 1, 31, 86399>>, <<2024, 2, 1, 0>>, <<2024, 3, 1, 0>>,
      <<2024, 12, 1, 0>>, <<2025, 1, 1, 0>> }

\* month strings: "2024-02", "2024-12", and "2024-13", which the pattern of
\* BudgetBase.month accepts
SpendMonths ==
    { <<"2", "0", "2", "4", "-", "0", "2">>,
      <<"2", "0", "2", "4", "-", "1", "2">>,
      <<"2", "0", "2", "4", "-", "1", "3">> }

InitSpend ==
    /\ rules = <<>>
    /\ categories = <<"Food", "Shop">>
    /\ cls = [op |-> "none"]
    /\ accounts = [a \in AccountIds |-> 1000]
    /\ opening = accounts
    /\ transactions = {}
    /\ resp = [op |-> "none"]
    /\ ResolverIdle
    /\ ev = [op |-> "none"]
    /\ agg = [op |-> "none"]
    /\ budgets = {}
    /\ StoreIdle
    /\ SheetsIdle

\* create_transaction with a category supplied by the caller
SpendCreate ==
    \E ttype \in {"income", "expense"}, category_id \in SpendCategories,
       timestamp \in SpendTimestamps :
        /\ NextTransactionId \in SpendIds
        /\ CreateTransaction(1, 100, ttype, category_id, None, None,
                             timestamp, {}, "none", FALSE, "unavailable")
        /\ agg' = [op |-> "none"]
        /\ UNCHANGED <<varsResolver, ev, budgets, varsStore>>

\* update_transaction that sets the type of a row
SpendUpdate ==
    \E id \in SpendIds, ttype \in {"income", "expense"} :
        /\ HasTransaction(id)
        /\ UpdateTransaction(id, {"transaction_type"}, 100, ttype, NoId,
                             <<2024, 2, 1, 0>>, FALSE)
        /\ agg' = [op |-> "none"]
        /\ UNCHANGED <<varsResolver, ev, budgets, varsStore, varsSheets>>

\* one call of _calculate_current_spending. raised: the call raises to its
\* caller, which it never does: every exception ends in "return 0.0"
Spending ==
    \E category_id \in SpendCategories, month \in SpendMonths,
       raises \in BOOLEAN :
        /\ agg' = [op |-> "spend", category_id |-> category_id,
                   month |-> month, raises |-> raises, raised |-> FALSE,
                   result |-> CalculateCurrentSpending(transactions,
                                  category_id, month, raises)]
        /\ UNCHANGED <<varsClassifier, varsLedger, varsResolver, ev, budgets,
                       varsStore, varsSheets>>

NextSpend == SpendCreate \/ SpendUpdate \/ Spending

SpecSpend == InitSpend /\ [][NextSpend]_vars

\* ---------------------------------------------- spend aggregator: the claims

\* year and month number of the text "YYYY-MM"
YearOf(month) == IntOf(SubSeq(month, 1, 4))

MonthOf(month) == IntOf(SubSeq(month, 6, 7))

\* The expense transactions of a category dated in a calendar month
ExpensesOfMonth(category_id, month) ==
    { t \in transactions :
        /\ t.category_id = category_id
        /\ TypeValue(t.transaction_type) = "expense"
        /\ t.timestamp[1] = YearOf(month)
        /\ t.timestamp[2] = MonthOf(month) }

\* C6 as stated: for a month string that denotes a month, a call that does
\* not fail returns the sum over exactly the category's expense transactions
\* with first day of the month <= timestamp < first day of the next month.
C6_SpendCountsTheMonth ==
    ( /\ agg.op = "spend"
      /\ ~agg.raises
      /\ MonthOf(agg.month) \in 1..12 )
    => agg.result = SumAmounts(ExpensesOfMonth(agg.category_id, agg.month))

\* C21 as stated: when the month string denotes no valid month or the ledger
\* query fails, _calculate_current_spending raises or returns an error to its
\* caller, not an amount.
C21_SpendFailsLoudly ==
    ( /\ agg.op = "spend"
      /\ agg.raises \/ ~DateRange(agg.month).ok )
    => agg.raised

\* C24 as stated: two calls of _calculate_current_spending for the same
\* category and month with no ledger write between them return the same
\* value, and the call changes no stored state.
C24_RepeatedCallsAgree ==
    [][ ( /\ agg.op = "spend"
          /\ agg'.op = "spend"
          /\ agg'.category_id = agg.category_id
          /\ agg'.month = agg.month )
        => ( /\ agg'.result = agg.result
             /\ UNCHANGED <<transactions, accounts, budgets>> ) ]_vars

\* the rows create_transaction stored as expenses of a category, dated in a
\* calendar month
CreatedExpensesOfMonth(category_id, month) ==
    { t \in ExpensesOfMonth(category_id, month) :
        t.transaction_type = TRANSACTION_TYPE_MAP("expense") }

\* C25 as stated: an expense recorded through create_transaction with
\* category c and a timestamp in month m is counted by
\* _calculate_current_spending(c, m), and income and transfer transactions
\* of the category and month are never counted.
C25_CreatedExpenseIsCounted ==
    ( /\ agg.op = "spend"
      /\ ~agg.raises
      /\ DateRange(agg.month).ok )
    => ( /\ agg.result >=
              SumAmounts(CreatedExpensesOfMonth(agg.category_id, agg.month))
         /\ agg.result <=
              SumAmounts(ExpensesOfMonth(agg.category_id, agg.month)) )

\* ---------------------------------------------------------- budget evaluator

\* A percentage is kept exact, as the fraction num / den with den > 0.
\* An alert_threshold is kept in hundredths: 80 is the threshold 0.8, and
\* alert_threshold * 100 is then the number itself.

\* Variant of the percentage that divides by every limit
PercentageUsedAnyLimit(current_spending, amount_limit) ==
    [num |-> current_spending * 100, den |-> amount_limit]

\* (current_spending / budget.amount_limit) * 100 if budget.amount_limit > 0
\* else 0
PercentageUsed(current_spending, amount_limit) ==
    IF amount_limit > 0
    THEN [num |-> current_spending * 100, den |-> amount_limit]
    ELSE [num |-> 0, den |-> 1]

\* percentage > k, percentage >= k, percentage < k
Above(percentage, k) == percentage.num > k * percentage.den

AtLeast(percentage, k) == percentage.num >= k * percentage.den

Below(percentage, k) == percentage.num < k * percentage.den

\* Variant of the status in which reaching the limit is already over budget
BudgetStatusOverAtLimit(percentage_used, alert_threshold) ==
    IF AtLeast(percentage_used, 100) THEN "over_budget"
    ELSE IF AtLeast(percentage_used, alert_threshold) THEN "near_limit"
    ELSE "on_track"

\* Variant of the status in which the threshold itself is still on track
BudgetStatusAboveThreshold(percentage_used, alert_threshold) ==
    IF Above(percentage_used, 100) THEN "over_budget"
    ELSE IF Above(percentage_used, alert_threshold) THEN "near_limit"
    ELSE "on_track"

\* status of get_current_budget_status
BudgetStatus(percentage_used, alert_threshold) ==
    IF Above(percentage_used, 100) THEN "over_budget"
    ELSE IF AtLeast(percentage_used, alert_threshold) THEN "near_limit"
    ELSE "on_track"

\* percentage_used of _update_budgets_sync
SheetPercentageUsed(amount_spent, amount_limit) ==
    IF amount_limit # 0 /\ amount_limit > 0
    THEN [num |-> amount_spent * 100, den |-> amount_limit]
    ELSE [num |-> 0, den |-> 1]

\* status of _update_budgets_sync, without its leading symbol
SheetStatus(percentage_used, alert_threshold) ==
    IF Above(percentage_used, 100) THEN "Over Budget"
    ELSE IF Below(percentage_used, alert_threshold) THEN "On Track"
    ELSE "Near Limit"

\* `values` of a validator of schemas.Budget that runs after amount_limit:
\* the fields validated so far, an amount_limit only if it passed gt=0
ValidatedValues(amount_limit) ==
    IF amount_limit > 0 THEN [amount_limit |-> amount_limit] ELSE <<>>

\* Budget.calculate_spent_percentage(v, values), its result unrounded;
\* raised: the division raises ZeroDivisionError
calculate_spent_percentage(v, values) ==
    IF "amount_limit" \in DOMAIN values
    THEN IF values.amount_limit = 0
         THEN [raised |-> TRUE]
         ELSE [raised |-> FALSE,
               percentage |-> [num |-> v * 100, den |-> values.amount_limit]]
    ELSE [raised |-> FALSE, percentage |-> [num |-> 0, den |-> 1]]

\* ----------------------------------------------- budget evaluator: the inputs

\* Largest spend evaluated, in hundreds
MaxSpendHundreds == 12

\* amount_limit of a budget row: positive by BudgetBase, and 0 or negative,
\* which only a row written past the schema holds
AmountLimits == {-100, 0, 500, 1000}

\* current spend: a sum of amounts, in steps of 100 and next to each limit
Spendings ==
    { 100 * k : k \in 0..MaxSpendHundreds }
        \cup { l + 1 : l \in { k \in AmountLimits : k >= 0 } }
        \cup { l - 1 : l \in { k \in AmountLimits : k > 0 } }

\* alert_threshold, ge=0.1 and le=1.0, in hundredths
AlertThresholds == {10, 50, 80, 100}

InitEvaluate ==
    /\ rules = <<>>
    /\ categories = <<>>
    /\ cls = [op |-> "none"]
    /\ LedgerIdle
    /\ ResolverIdle
    /\ BudgetIdle
    /\ StoreIdle
    /\ SheetsIdle

\* The status derivation of one budget: in the API, for the sheet and in
\* the response schema
Evaluate ==
    \E amount_limit \in AmountLimits, current_spending \in Spendings,
       alert_threshold \in AlertThresholds :
        /\ ev' = [op |-> "evaluate",
                  amount_limit |-> amount_limit,
                  current_spending |-> current_spending,
                  alert_threshold |-> alert_threshold,
                  percentage_used |->
                      PercentageUsed(current_spending, amount_limit),
                  status |->
                      BudgetStatus(PercentageUsed(current_spending, amount_limit),
                                   alert_threshold),
                  sheet_percentage_used |->
                      SheetPercentageUsed(current_spending, amount_limit),
                  sheet_status |->
                      SheetStatus(SheetPercentageUsed(current_spending, amount_limit),
                                  alert_threshold),
                  schema |->
                      calculate_spent_percentage(current_spending,
                          ValidatedValues(amount_limit))]
        /\ UNCHANGED <<varsClassifier, varsLedger, varsResolver, agg, budgets,
                       varsStore, varsSheets>>

NextEvaluate == Evaluate

SpecEvaluate == InitEvaluate /\ [][NextEvaluate]_vars

\* ----------------------------------------------- budget evaluator: the claims

\* the evaluated budget's spend is exactly its limit: percentage_used = 100
SpendEqualsLimit ==
    /\ ev.op = "evaluate"
    /\ ev.amount_limit > 0
    /\ ev.current_spending = ev.amount_limit

\* C7 as stated: a budget whose spend equals its amount_limit exactly gets
\* status over_budget, not near_limit, for every alert_threshold in [0.1, 1.0].
C7_AtLimitIsOverBudget ==
    SpendEqualsLimit => ev.status = "over_budget"

\* C7 as amended: a budget whose spend equals its amount_limit exactly gets
\* status near_limit, not over_budget, for every alert_threshold in
\* [0.1, 1.0].
C7_AtLimitIsNearLimit ==
    SpendEqualsLimit => ev.status = "near_limit"

\* limit = 1000 and spend = 1000 have been evaluated
C7_Witness ==
    /\ SpendEqualsLimit
    /\ ev.amount_limit = 1000
    /\ ev.alert_threshold = 100
    /\ ev.status = "near_limit"

\* spend / limit * 100 compared with k, from the budget's own numbers
\* (percentage_used is 0 for a limit that is not positive)
UsedAbove(k) ==
    ev.amount_limit > 0 /\ ev.current_spending * 100 > k * ev.amount_limit

UsedAtLeast(k) ==
    IF ev.amount_limit > 0
    THEN ev.current_spending * 100 >= k * ev.amount_limit
    ELSE 0 >= k

\* C8: the status is over_budget when percentage_used > 100, otherwise
\* near_limit when percentage_used >= alert_threshold * 100, otherwise
\* on_track; the sheet's status is the same one of the three; and spend 800
\* with limit 1000 and threshold 0.8 gives near_limit.
C8_StatusByPercentage ==
    ev.op = "evaluate" =>
        /\ ev.status = "over_budget" <=> UsedAbove(100)
        /\ ev.status = "near_limit" <=>
              ~UsedAbove(100) /\ UsedAtLeast(ev.alert_threshold)
        /\ ev.status = "on_track" <=>
              ~UsedAbove(100) /\ ~UsedAtLeast(ev.alert_threshold)
        /\ ev.sheet_status = "Over Budget" <=> ev.status = "over_budget"
        /\ ev.sheet_status = "Near Limit" <=> ev.status = "near_limit"
        /\ ev.sheet_status = "On Track" <=> ev.status = "on_track"
        /\ ( /\ ev.current_spending = 800
             /\ ev.amount_limit = 1000
             /\ ev.alert_threshold = 80 ) => ev.status = "near_limit"

\* spend 800 of limit 1000 has been evaluated at threshold 0.8
C8_Witness ==
    /\ ev.op = "evaluate"
    /\ ev.current_spending = 800
    /\ ev.amount_limit = 1000
    /\ ev.alert_threshold = 80
    /\ ev.status = "near_limit"
    /\ ev.sheet_status = "Near Limit"

\* the percentage 0
ZeroPercent == [num |-> 0, den |-> 1]

ExistingBudget(rows, category_id, month) ==
    \E b \in rows : b.category_id = category_id /\ b.month = month

\* db.query(Category).filter(Category.id == budget.category_id).first()
CategoryExists(cats, category_id) == category_id \in 1..Len(cats)

\* The id the store gives a new budget row: one more than the largest
NextBudgetId(rows) ==
    IF rows = {} THEN 1
    ELSE (CHOOSE i \in {b.id : b \in rows} : \A b \in rows : b.id <= i) + 1

\* Budget(**budget.dict()) with amount_spent set from the ledger; is_active
\* takes the column's default
NewBudget(rows, txs, category_id, month, amount_limit, alert_threshold) ==
    [id |-> NextBudgetId(rows),
     category_id |-> category_id,
     month |-> month,
     amount_limit |-> amount_limit,
     alert_threshold |-> alert_threshold,
     amount_spent |-> CalculateCurrentSpending(txs, category_id, month, FALSE),
     is_active |-> TRUE]

\* PUT /api/budgets/{id}: update_budget. keys: the fields of update_data;
\* raises: the query or the commit fails (rollback, 500). A missing row is
\* answered 404. The export to the sheet, of outcome export, comes after
\* the commit.
UpdateBudget(id, keys, amount_limit, alert_threshold, is_active, raises, export) ==
    IF raises
    THEN /\ resp' = [op |-> "update_budget", status |-> 500]
         /\ UNCHANGED <<budgets, sheets>>
    ELSE IF \A b \in budgets : b.id # id
    THEN /\ resp' = [op |-> "update_budget", status |-> 404,
                     missing |-> TRUE]
         /\ UNCHANGED <<budgets, sheets>>
    ELSE LET old == CHOOSE b \in budgets : b.id = id
             new == [old EXCEPT
                       !.amount_limit =
                           IF "amount_limit" \in keys THEN amount_limit ELSE @,
                       !.alert_threshold =
                           IF "alert_threshold" \in keys THEN alert_threshold ELSE @,
                       !.is_active =
                           IF "is_active" \in keys THEN is_active ELSE @,
                       !.amount_spent =
                           CalculateCurrentSpending(transactions,
                               old.category_id, old.month, FALSE)]
             sync == SyncToSheets("update_budget", export)
         IN  /\ budgets' = (budgets \ {old}) \cup {new}
             /\ sheets' = sync.sheets
             /\ resp' = [op |-> "update_budget",
                         status |-> IF sync.raised THEN 500 ELSE 200]

\* DELETE /api/budgets/{id}: delete_budget. The 404 of a missing row is
\* raised inside the try block, whose except Exception answers 500.
DeleteBudget(id, raises) ==
    IF raises \/ \A b \in budgets : b.id # id
    THEN /\ resp' = [op |-> "delete_budget", status |-> 500,
                     missing |-> ~raises]
         /\ UNCHANGED budgets
    ELSE /\ budgets' = { b \in budgets : b.id # id }
         /\ resp' = [op |-> "delete_budget", status |-> 200]

\* ------------------------------------------------- budgets API: the inputs

\* the ids the rows of the table budgets take
BudgetIds == {1, 2}

\* category ids of requests: two of the table and one no row has
BudgetCategories == {1, 2, 9}

\* "2024-02"
BudgetMonths == { <<"2", "0", "2", "4", "-", "0", "2">> }

InitBudgets ==
    /\ rules = <<>>
    /\ categories = <<"Food", "Shop">>
    /\ cls = [op |-> "none"]
    /\ LedgerIdle
    /\ rcall = [op |-> "none"]
    /\ req = [w \in Workers |-> [pc |-> "idle"]]
    /\ BudgetIdle
    /\ StoreIdle
    /\ SheetsIdle

\* POST /api/budgets: a create_budget request arrives at a server process
CreateBudgetCall(w) ==
    \E category_id \in BudgetCategories, month \in BudgetMonths :
        /\ req[w].pc = "idle"
        /\ req' = [req EXCEPT ![w] = [pc |-> "check",
                                      category_id |-> category_id,
                                      month |-> month]]
        /\ UNCHANGED <<varsClassifier, varsLedger, rcall, varsBudget, varsStore, varsSheets>>

\* create_budget: the query for an existing budget (400) and the query for
\* the category (404)
CreateBudgetCheck(w) ==
    /\ req[w].pc = "check"
    /\ req' = [req EXCEPT ![w] =
                 IF ExistingBudget(budgets, req[w].category_id, req[w].month)
                 THEN [pc |-> "done", status |-> 400]
                 ELSE IF ~CategoryExists(categories, req[w].category_id)
                      THEN [pc |-> "done", status |-> 404]
                      ELSE [req[w] EXCEPT !.pc = "insert"]]
    /\ UNCHANGED <<varsClassifier, varsLedger, rcall, varsBudget, varsStore, varsSheets>>

\* create_budget: the spend of the month, db.add, db.commit, and the export
\* to the sheet that follows
CreateBudgetInsert(w) ==
    \E export \in ExportOutcomes :
      LET sync == SyncToSheets("create_budget", export)
      IN  /\ req[w].pc = "insert"
          /\ NextBudgetId(budgets) \in BudgetIds
          /\ budgets' = budgets \cup
                          { NewBudget(budgets, transactions, req[w].category_id,
                                      req[w].month, 1000, 80) }
          /\ sheets' = sync.sheets
          /\ req' = [req EXCEPT ![w] =
                       [pc |-> "done",
                        status |-> IF sync.raised THEN 500 ELSE 200]]
          /\ UNCHANGED <<varsClassifier, varsLedger, rcall, ev, agg, varsStore>>

\* create_budget: a query or the commit raises: rollback, 500
CreateBudgetError(w) ==
    /\ req[w].pc \in {"check", "insert"}
    /\ req' = [req EXCEPT ![w] = [pc |-> "done", status |-> 500]]
    /\ UNCHANGED <<varsClassifier, varsLedger, rcall, varsBudget, varsStore, varsSheets>>

\* the response is sent; the process takes the next request
CreateBudgetReturn(w) ==
    /\ req[w].pc = "done"
    /\ req' = [req EXCEPT ![w] = [pc |-> "idle"]]
    /\ UNCHANGED <<varsClassifier, varsLedger, rcall, varsBudget, varsStore, varsSheets>>

BudgetUpdate ==
    \E id \in BudgetIds, keys \in SUBSET {"amount_limit", "is_active"},
       raises \in BOOLEAN :
      \E is_active \in ValuesIf("is_active", keys, BOOLEAN) :
      \E export \in ExportOutcomes :
        /\ UpdateBudget(id, keys, 500, 80, is_active, raises, export)
        /\ UNCHANGED <<varsClassifier, accounts, opening, transactions,
                       varsResolver, ev, agg, varsStore>>

BudgetDelete ==
    \E id \in BudgetIds, raises \in BOOLEAN :
        /\ DeleteBudget(id, raises)
        /\ UNCHANGED <<varsClassifier, accounts, opening, transactions,
                       varsResolver, ev, agg, varsStore, varsSheets>>

NextBudgets ==
    \/ \E w \in Workers :
        \/ CreateBudgetCall(w)
        \/ CreateBudgetCheck(w)
        \/ CreateBudgetInsert(w)
        \/ CreateBudgetError(w)
        \/ CreateBudgetReturn(w)
    \/ BudgetUpdate
    \/ BudgetDelete

SpecBudgets == InitBudgets /\ [][NextBudgets]_vars

\* ------------------------------------------------- budgets API: the claims

\* the active budgets of a (category, month) pair
ActiveBudgets(category_id, month) ==
    { b \in budgets :
        b.is_active /\ b.category_id = category_id /\ b.month = month }

\* C9 as stated: at most one active budget exists for every (category, month)
\* pair after any sequence of create_budget, update_budget and delete_budget
\* calls, including two create_budget calls for one pair that run at the
\* same time.
C9_OneActiveBudgetPerPair ==
    \A category_id \in BudgetCategories, month \in BudgetMonths :
        Cardinality(ActiveBudgets(category_id, month)) <= 1

\* ------------------------------------------- budgets API: refresh and export

\* GET /api/budgets/{id}: get_budget. A missing row is answered 404. The spend
\* of the month is recomputed and, when it differs, committed; an exception
\* is not caught by the handler and the framework answers 500.
GetBudget(id, raises) ==
    IF raises
    THEN /\ resp' = [op |-> "get_budget", status |-> 500, missing |-> FALSE]
         /\ UNCHANGED budgets
    ELSE IF \A b \in budgets : b.id # id
    THEN /\ resp' = [op |-> "get_budget", status |-> 404, missing |-> TRUE]
         /\ UNCHANGED budgets
    ELSE LET old == CHOOSE b \in budgets : b.id = id
             current_spending ==
                 CalculateCurrentSpending(transactions, old.category_id,
                                          old.month, FALSE)
         IN  /\ budgets' = (budgets \ {old}) \cup
                             {[old EXCEPT !.amount_spent = current_spending]}
             /\ resp' = [op |-> "get_budget", status |-> 200,
                         missing |-> FALSE]

\* query.all() of refresh_budget_spending: the active budgets, of the month
\* when one is given
RefreshedBudgets(rows, month) ==
    { b \in rows : b.is_active /\ (month = None \/ b.month = month) }

\* the loop of refresh_budget_spending: the budgets whose amount_spent
\* differs from the spend of their month, with the value to write
RefreshWrites(rows, txs, month) ==
    { [id |-> b.id,
       amount_spent |-> CalculateCurrentSpending(txs, b.category_id, b.month,
                                                 FALSE)] :
        b \in { x \in RefreshedBudgets(rows, month) :
                  x.amount_spent #
                    CalculateCurrentSpending(txs, x.category_id, x.month,
                                             FALSE) } }

\* db.commit() of refresh_budget_spending: each write is an UPDATE of the row
\* with that id
ApplyWrites(rows, writes) ==
    { IF \E wr \in writes : wr.id = b.id
      THEN [b EXCEPT !.amount_spent =
                       (CHOOSE wr \in writes : wr.id = b.id).amount_spent]
      ELSE b : b \in rows }

\* the month parameter of refresh_budget_spending: absent, or "2024-02"
RefreshMonths == {None} \cup BudgetMonths

\* POST /api/budgets/refresh-spending: a request arrives at a server process
RefreshCall(w) ==
    \E month \in RefreshMonths :
        /\ req[w].pc = "idle"
        /\ req' = [req EXCEPT ![w] = [pc |-> "refresh", month |-> month]]
        /\ UNCHANGED <<varsClassifier, varsLedger, rcall, varsBudget, varsStore,
                       varsSheets>>

\* refresh_budget_spending: the query for the budgets and the loop that
\* recomputes their spend, in the session of the request. fresh: no
\* transaction is written between this step and the commit
RefreshCompute(w) ==
    /\ req[w].pc = "refresh"
    /\ req' = [req EXCEPT ![w] =
                 [pc |-> "commit",
                  ids |-> {b.id : b \in RefreshedBudgets(budgets, req[w].month)},
                  writes |-> RefreshWrites(budgets, transactions, req[w].month),
                  fresh |-> TRUE]]
    /\ UNCHANGED <<varsClassifier, varsLedger, rcall, varsBudget, varsStore,
                   varsSheets>>

\* refresh_budget_spending: db.commit() and, when updated_count > 0, the
\* export to the sheet. The UPDATE of a row that is gone raises.
RefreshCommit(w) ==
    \E export \in ExportOutcomes :
      LET sync == SyncToSheets("refresh_budget_spending", export)
          gone == \E wr \in req[w].writes : \A b \in budgets : b.id # wr.id
          exported == ~gone /\ req[w].writes # {}
      IN  /\ req[w].pc = "commit"
          /\ budgets' = IF gone THEN budgets
                        ELSE ApplyWrites(budgets, req[w].writes)
          /\ sheets' = IF exported THEN sync.sheets ELSE sheets
          /\ req' = [req EXCEPT ![w] =
                       [pc |-> "done",
                        status |-> IF gone \/ (exported /\ sync.raised)
                                   THEN 500 ELSE 200]]
          /\ UNCHANGED <<varsClassifier, varsLedger, rcall, ev, agg, varsStore>>

\* refresh_budget_spending: the query or the commit raises: rollback, 500
RefreshError(w) ==
    /\ req[w].pc \in {"refresh", "commit"}
    /\ req' = [req EXCEPT ![w] = [pc |-> "done", status |-> 500]]
    /\ UNCHANGED <<varsClassifier, varsLedger, rcall, varsBudget, varsStore,
                   varsSheets>>

\* ------------------------------------ budgets API: refresh and export, inputs

\* the ids the rows of the table transactions take
SyncIds == {1}

\* a transaction is written: the refreshes that have read are no longer fresh
Unfresh ==
    [w \in Workers |->
        IF req[w].pc = "commit" THEN [req[w] EXCEPT !.fresh = FALSE]
        ELSE req[w]]

InitSync ==
    /\ rules = <<>>
    /\ categories = <<"Food", "Shop">>
    /\ cls = [op |-> "none"]
    /\ accounts = [a \in AccountIds |-> 1000]
    /\ opening = accounts
    /\ transactions = {}
    /\ resp = [op |-> "none"]
    /\ rcall = [op |-> "none"]
    /\ req = [w \in Workers |-> [pc |-> "idle"]]
    /\ BudgetIdle
    /\ StoreIdle
    /\ SheetsIdle

\* create_transaction of an expense of category 1 in February 2024
SyncCreate ==
    \E err \in {"none", "commit", "after"}, sync_to_sheets \in BOOLEAN,
       export \in ExportOutcomes :
        /\ NextTransactionId \in SyncIds
        /\ CreateTransaction(1, 100, "expense", 1, None, None,
                             <<2024, 2, 1, 0>>, {}, err, sync_to_sheets, export)
        /\ req' = Unfresh
        /\ UNCHANGED <<rcall, varsBudget, varsStore>>

\* update_transaction that sets the type of a row
SyncUpdate ==
    \E id \in SyncIds :
        /\ HasTransaction(id)
        /\ UpdateTransaction(id, {"transaction_type"}, 100, "expense", NoId,
                             <<2024, 2, 1, 0>>, FALSE)
        /\ req' = Unfresh
        /\ UNCHANGED <<rcall, varsBudget, varsStore, varsSheets>>

\* create_budget for category 1
SyncBudgetCall(w) ==
    \E month \in BudgetMonths :
        /\ req[w].pc = "idle"
        /\ req' = [req EXCEPT ![w] = [pc |-> "check", category_id |-> 1,
                                      month |-> month]]
        /\ UNCHANGED <<varsClassifier, varsLedger, rcall, varsBudget, varsStore,
                       varsSheets>>

SyncBudgetUpdate ==
    \E id \in {1}, export \in ExportOutcomes :
        /\ UpdateBudget(id, {"amount_limit"}, 500, 80, TRUE, FALSE, export)
        /\ UNCHANGED <<varsClassifier, accounts, opening, transactions,
                       varsResolver, ev, agg, varsStore>>

SyncBudgetGet ==
    \E id \in {1}, raises \in BOOLEAN :
        /\ GetBudget(id, raises)
        /\ UNCHANGED <<varsClassifier, accounts, opening, transactions,
                       varsResolver, ev, agg, varsStore, varsSheets>>

NextSync ==
    \/ SyncCreate
    \/ SyncUpdate
    \/ SyncBudgetCall(1)
    \/ CreateBudgetCheck(1)
    \/ CreateBudgetInsert(1)
    \/ CreateBudgetError(1)
    \/ SyncBudgetUpdate
    \/ SyncBudgetGet
    \/ \E w \in Workers :
        \/ RefreshCall(w)
        \/ RefreshCompute(w)
        \/ RefreshCommit(w)
        \/ RefreshError(w)
        \/ CreateBudgetReturn(w)

SpecSync == InitSync /\ [][NextSync]_vars

\* ------------------------------------ budgets API: refresh and export, claims

\* the step changes the table budgets or the record of the last export
BudgetsOrSheetsChange == budgets' # budgets \/ sheets' # sheets

\* C17: create_transaction, create_budget, update_budget and
\* refresh_budget_spending return success and keep the committed change
\* whether the export to the spreadsheet succeeds, fails or is unavailable:
\* a step of one of the four that commits, and in which nothing but the
\* export can have failed, is answered 200.
C17_ExportNeverFailsTheRequest ==
    [][ /\ ( /\ resp'.op = "create"
             /\ transactions' # transactions
             /\ resp'.err = "none" )
           => ( /\ resp'.status = 200
                /\ Cardinality(transactions') = Cardinality(transactions) + 1 )
        /\ ( /\ resp'.op = "update_budget"
             /\ req' = req
             /\ BudgetsOrSheetsChange )
           => resp'.status = 200
        /\ \A w \in Workers :
             ( /\ req[w].pc = "insert"
               /\ req'[w].pc = "done"
               /\ BudgetsOrSheetsChange )
             => ( /\ req'[w].status = 200
                  /\ Cardinality(budgets') = Cardinality(budgets) + 1 )
        /\ \A w \in Workers :
             ( /\ req[w].pc = "commit"
               /\ req'[w].pc = "done"
               /\ BudgetsOrSheetsChange )
             => ( /\ req'[w].status = 200
                  /\ budgets' = ApplyWrites(budgets, req[w].writes) ) ]_vars

\* a refresh has written a new amount_spent and answered 200 although its
\* export to the spreadsheet failed
C17_Witness ==
    /\ sheets = [op |-> "refresh_budget_spending", export |-> "fails"]
    /\ \E w \in Workers : req[w] = [pc |-> "done", status |-> 200]
    /\ \E b \in budgets : b.amount_spent = 100

\* C19 as stated: a refresh that commits while no transaction was written
\* since it read leaves every budget it refreshed with amount_spent equal to
\* the sum of the amounts of the expense transactions of the budget's
\* category and month, also when another refresh runs at the same time.
C19_RefreshLeavesMonthsExpenses ==
    [][ \A w \in Workers :
          ( /\ req[w].pc = "commit"
            /\ req'[w].pc = "done"
            /\ req'[w].status = 200
            /\ req[w].fresh )
          => \A b \in budgets' :
                b.id \in req[w].ids
                => b.amount_spent =
                     SumAmounts(ExpensesOfMonth(b.category_id, b.month)) ]_vars

\* ------------------------------------------------ budgets API: current status

\* db.query(Budget).filter(Budget.month == current_month,
\* Budget.is_active == True).all()
EvaluatedBudgets(rows, current_month) ==
    { b \in rows : b.month = current_month /\ b.is_active }

\* the rows of a query in the order of their ids
BudgetsInOrder(rows) ==
    CHOOSE s \in [1..Cardinality(rows) -> rows] :
        \A i, j \in 1..Cardinality(rows) : i < j => s[i].id < s[j].id

\* the status get_current_budget_status derives for a budget from the ledger
CurrentStatus(b, txs) ==
    BudgetStatus(
        PercentageUsed(CalculateCurrentSpending(txs, b.category_id, b.month,
                                                FALSE),
                       b.amount_limit),
        b.alert_threshold)

\* the alert appended for a budget; the category id stands for its name
BudgetAlert(b, txs) ==
    LET current_spending ==
            CalculateCurrentSpending(txs, b.category_id, b.month, FALSE)
    IN  [type |-> "budget_alert",
         category |-> b.category_id,
         status |-> CurrentStatus(b, txs),
         amount_over |-> IF current_spending > b.amount_limit
                         THEN current_spending - b.amount_limit ELSE 0]

\* Variant of the alerts that reports only the budgets that are over
AlertsOverOnly(evaluated, txs) ==
    LET over == SelectSeq(evaluated,
                    LAMBDA b : CurrentStatus(b, txs) = "over_budget")
    IN  [i \in 1..Len(over) |-> BudgetAlert(over[i], txs)]

\* alerts of get_current_budget_status: the loop appends one for each budget
\* whose status is in ["over_budget", "near_limit"]
Alerts(evaluated, txs) ==
    LET alerting == SelectSeq(evaluated,
                        LAMBDA b : CurrentStatus(b, txs)
                                       \in {"over_budget", "near_limit"})
    IN  [i \in 1..Len(alerting) |-> BudgetAlert(alerting[i], txs)]

\* GET /api/budgets/current/status: get_current_budget_status. raises: the
\* query or the commit fails; the handler catches nothing and the framework
\* answers 500
GetCurrentBudgetStatus(current_month, raises) ==
    IF raises
    THEN /\ resp' = [op |-> "status", status |-> 500]
         /\ UNCHANGED budgets
    ELSE LET evaluated == EvaluatedBudgets(budgets, current_month)
         IN  /\ budgets' =
                   { IF b \in evaluated
                     THEN [b EXCEPT !.amount_spent =
                              CalculateCurrentSpending(transactions,
                                  b.category_id, b.month, FALSE)]
                     ELSE b : b \in budgets }
             /\ resp' = [op |-> "status", status |-> 200,
                         month |-> current_month,
                         alerts |-> Alerts(BudgetsInOrder(evaluated),
                                           transactions),
                         budget_count |-> Cardinality(evaluated)]

\* ---------------------------------------- budgets API: current status, inputs

\* "2024-02", "2024-03"
StatusMonths ==
    { <<"2", "0", "2", "4", "-", "0", "2">>,
      <<"2", "0", "2", "4", "-", "0", "3">> }

\* the budgets requested of create_budget
StatusBudgets ==
    { [category_id |-> 1, month |-> <<"2", "0", "2", "4", "-", "0", "2">>,
       amount_limit |-> 100, alert_threshold |-> 50],
      [category_id |-> 1, month |-> <<"2", "0", "2", "4", "-", "0", "2">>,
       amount_limit |-> 200, alert_threshold |-> 100],
      [category_id |-> 2, month |-> <<"2", "0", "2", "4", "-", "0", "2">>,
       amount_limit |-> 200, alert_threshold |-> 50],
      [category_id |-> 2, month |-> <<"2", "0", "2", "4", "-", "0", "3">>,
       amount_limit |-> 100, alert_threshold |-> 50] }

InitStatus ==
    /\ rules = <<>>
    /\ categories = <<"Food", "Shop">>
    /\ cls = [op |-> "none"]
    /\ accounts = [a \in AccountIds |-> 1000]
    /\ opening = accounts
    /\ transactions = {}
    /\ resp = [op |-> "none"]
    /\ ResolverIdle
    /\ BudgetIdle
    /\ StoreIdle
    /\ SheetsIdle

\* create_transaction of an expense of 100 in February 2024
StatusCreate ==
    \E category_id \in SpendCategories :
        /\ NextTransactionId \in SpendIds
        /\ CreateTransaction(1, 100, "expense", category_id, None, None,
                             <<2024, 2, 1, 0>>, {}, "none", FALSE,
                             "unavailable")
        /\ UNCHANGED <<varsResolver, varsBudget, varsStore>>

\* update_transaction that sets the type of a row
StatusUpdate ==
    \E id \in SpendIds :
        /\ HasTransaction(id)
        /\ UpdateTransaction(id, {"transaction_type"}, 100, "expense", NoId,
                             <<2024, 2, 1, 0>>, FALSE)
        /\ UNCHANGED <<varsResolver, varsBudget, varsStore, varsSheets>>

\* create_budget, one request at a time
StatusCreateBudget ==
    \E r \in StatusBudgets :
        /\ ~ExistingBudget(budgets, r.category_id, r.month)
        /\ NextBudgetId(budgets) \in BudgetIds
        /\ budgets' = budgets \cup
                        { NewBudget(budgets, transactions, r.category_id,
                                    r.month, r.amount_limit,
                                    r.alert_threshold) }
        /\ resp' = [op |-> "create_budget", status |-> 200]
        /\ UNCHANGED <<varsClassifier, accounts, opening, transactions,
                       varsResolver, ev, agg, varsStore, varsSheets>>

\* update_budget that sets is_active
StatusUpdateBudget ==
    \E id \in BudgetIds, is_active \in BOOLEAN :
        /\ UpdateBudget(id, {"is_active"}, 100, 50, is_active, FALSE,
                        "unavailable")
        /\ UNCHANGED <<varsClassifier, accounts, opening, transactions,
                       varsResolver, ev, agg, varsStore>>

StatusGet ==
    \E current_month \in StatusMonths, raises \in BOOLEAN :
        /\ GetCurrentBudgetStatus(current_month, raises)
        /\ UNCHANGED <<varsClassifier, accounts, opening, transactions,
                       varsResolver, ev, agg, varsStore, varsSheets>>

NextStatus ==
    \/ StatusCreate
    \/ StatusUpdate
    \/ StatusCreateBudget
    \/ StatusUpdateBudget
    \/ StatusGet

SpecStatus == InitStatus /\ [][NextStatus]_vars

\* ---------------------------------------- budgets API: current status, claims

\* the budget's stored spend has reached its threshold or passed its limit
NeedsAlert(b) ==
    /\ b.amount_limit > 0
    /\ b.amount_spent * 100 >= b.alert_threshold * b.amount_limit

TxRaceIds == {1, 2}

\* the amount an update request sets
TxRaceAmounts == {150}

\* account.balance after the reversal of the row's effect and, for an update,
\* the application of the new one, starting from balance
BalanceAfter(balance, r) ==
    LET reversed == ReverseEffect(balance,
                                  TypeValue(r.row.transaction_type),
                                  r.row.amount)
    IN  IF r.op = "delete" THEN reversed
        ELSE ApplyEffect(reversed, TypeValue(r.row.transaction_type), r.amount)

InitTxRace ==
    /\ rules = <<>>
    /\ categories = <<"Food">>
    /\ cls = [op |-> "none"]
    /\ accounts = [a \in AccountIds |-> 1000]
    /\ opening = accounts
    /\ transactions = {}
    /\ resp = [op |-> "none"]
    /\ rcall = [op |-> "none"]
    /\ req = [w \in Workers |-> [pc |-> "idle"]]
    /\ BudgetIdle
    /\ StoreIdle
    /\ SheetsIdle

\* create_transaction of an expense of 100
TxRaceCreate ==
    /\ NextTransactionId \in TxRaceIds
    /\ CreateTransaction(1, 100, "expense", 1, None, None, <<2024, 2, 1, 0>>,
                         {}, "none", FALSE, "unavailable")
    /\ UNCHANGED <<varsResolver, varsBudget, varsStore>>

\* a request arrives at a server process
TxRaceCall(w) ==
    \E op \in {"update", "delete"}, id \in TxRaceIds,
       amount \in TxRaceAmounts :
        /\ req[w].pc = "idle"
        /\ \A a \in DOMAIN accounts : accounts[a] \in BalanceRange
        /\ req' = [req EXCEPT ![w] =
                     [pc |-> "read", op |-> op, id |-> id, amount |-> amount]]
        /\ UNCHANGED <<varsClassifier, varsLedger, rcall, varsBudget, varsStore,
                       varsSheets>>

\* the queries for the row and for its account; the 404 of a missing row
\* ends in the handler's except Exception
TxRaceRead(w) ==
    /\ req[w].pc = "read"
    /\ req' = [req EXCEPT ![w] =
                 IF ~HasTransaction(req[w].id)
                 THEN [pc |-> "done", status |-> 500]
                 ELSE [pc |-> "write", op |-> req[w].op, id |-> req[w].id,
                       amount |-> req[w].amount,
                       row |-> RowById(req[w].id),
                       balance |-> accounts[RowById(req[w].id).account_id]]]
    /\ UNCHANGED <<varsClassifier, varsLedger, rcall, varsBudget, varsStore,
                   varsSheets>>

\* db.commit(): the balance computed from the balance that was read is
\* written to the account; the row is updated or deleted. The UPDATE of a row
\* that is gone raises (rollback, 500); the DELETE of one only warns.
TxRaceCommit(w) ==
    LET r == req[w]
        gone == ~HasTransaction(r.id)
    IN  /\ r.pc = "write"
        /\ IF gone /\ r.op = "update"
           THEN /\ req' = [req EXCEPT ![w] = [pc |-> "done", status |-> 500]]
                /\ UNCHANGED <<accounts, transactions>>
           ELSE /\ accounts' = [accounts EXCEPT ![r.row.account_id] =
                                  BalanceAfter(r.balance, r)]
                /\ transactions' =
                     IF r.op = "delete"
                     THEN { t \in transactions : t.id # r.id }
                     ELSE { t \in transactions : t.id # r.id } \cup
                            {[r.row EXCEPT !.amount = r.amount]}
                /\ req' = [req EXCEPT ![w] = [pc |-> "done", status |-> 200]]
        /\ UNCHANGED <<varsClassifier, opening, resp, rcall, varsBudget,
                       varsStore, varsSheets>>

\* a query or the commit raises: rollback, 500
TxRaceError(w) ==
    /\ req[w].pc \in {"read", "write"}
    /\ req' = [req EXCEPT ![w] = [pc |-> "done", status |-> 500]]
    /\ UNCHANGED <<varsClassifier, varsLedger, rcall, varsBudget, varsStore,
                   varsSheets>>

\* the response is sent; the process takes the next request
TxRaceReturn(w) ==
    /\ req[w].pc = "done"
    /\ req' = [req EXCEPT ![w] = [pc |-> "idle"]]
    /\ UNCHANGED <<varsClassifier, varsLedger, rcall, varsBudget, varsStore,
                   varsSheets>>

NextTxRace ==
    \/ TxRaceCreate
    \/ \E w \in Workers :
        \/ TxRaceCall(w)
        \/ TxRaceRead(w)
        \/ TxRaceCommit(w)
        \/ TxRaceError(w)
        \/ TxRaceReturn(w)

SpecTxRace == InitTxRace /\ [][NextTxRace]_vars

\* C18 as stated: of two update_transaction or delete_transaction requests on
\* one account that run at the same time, each takes effect as one step on
\* the balance: the request that commits moves the balance the account has at
\* that moment by the delta between the row as it is stored at that moment
\* and the request, so no delta is lost or applied to a stale balance.
C18_DeltaMovesCurrentBalance ==
    [][ \A w \in Workers :
          ( /\ req[w].pc = "write"
            /\ req'[w].pc = "done"
            /\ req'[w].status = 200 )
          => accounts'[req[w].row.account_id] =
               IF HasTransaction(req[w].id)
               THEN BalanceAfter(accounts[req[w].row.account_id],
                                 [req[w] EXCEPT !.row = RowById(req[w].id)])
               ELSE accounts[req[w].row.account_id] ]_vars

\* ------------------------------------------------------------- rule store

\* The rule table is a Python dict: a sequence of rules with distinct names,
\* in insertion order. A rule's name is a number that stands for its key:
\* smaller numbers are keys that sort first.

\* rule_name in self.rules
HasRule(rs, name) == \E i \in 1..Len(rs) : rs[i].name = name

\* self.rules[rule_name] = {...}: an existing key keeps its position and
\* gets the new value, a new key goes to the end
SetRule(rs, rule) ==
    IF HasRule(rs, rule.name)
    THEN [i \in 1..Len(rs) |-> IF rs[i].name = rule.name THEN rule ELSE rs[i]]
    ELSE Append(rs, rule)

\* Variant of the deletion that removes the oldest rule, not the named one
DelRuleFirst(rs, name) == Tail(rs)

\* del self.rules[rule_name]
DelRule(rs, name) == SelectSeq(rs, LAMBDA r : r.name # name)

\* self.rules[rule_name].update(updated_rule): the keys of updated_rule
\* replace those of the rule
MergeRule(rule, updated_rule) ==
    [f \in DOMAIN rule |->
        IF f \in DOMAIN updated_rule THEN updated_rule[f] ELSE rule[f]]

\* An entry of the rules file: the key and the mapping under it
FileEntry(rule) ==
    [key |-> rule.name,
     value |-> [keywords |-> rule.keywords, patterns |-> rule.patterns,
                category_name |-> rule.category_name]]

\* yaml.dump(rules, f, default_flow_style=False, allow_unicode=True): the
\* entries are written with their keys sorted (sort_keys is left at True)
YamlDump(rs) ==
    SortSeq([i \in 1..Len(rs) |-> FileEntry(rs[i])],
            LAMBDA a, b : a.key < b.key)

\* yaml.safe_load(f): the mapping in the order of the file
SafeLoad(file) ==
    [i \in 1..Len(file) |->
        Rule(file[i].key, file[i].value.keywords, file[i].value.patterns,
             file[i].value.category_name)]

\* Variant of the write that opens the file in append mode
WriteRulesAppend(file, rs, outcome) ==
    CASE outcome = "ok" -> file \o YamlDump(rs)
      [] outcome = "open" -> file
      [] outcome = "dump" -> file

\* with open(self.rules_file, 'w') as f: yaml.dump(self.rules, f ...) under
\* try/except. outcome "ok": the dump is written; "open": open raises and the
\* file stays as it is; "dump": the write raises after open has emptied the
\* file
WriteRules(file, rs, outcome) ==
    CASE outcome = "ok" -> YamlDump(rs)
      [] outcome = "open" -> file
      [] outcome = "dump" -> <<>>

\* default_rules of _load_rules: not in the order of their keys
DefaultRules ==
    << Rule(2, << <<"a">> >>, <<>>, "Food"),
       Rule(1, << <<"b">> >>, <<>>, "Shop") >>

\* _load_rules. A file that holds a non-empty mapping is the table. An
\* absent, empty or unreadable file (all <<>> here) gives the defaults, after
\* they are written to the file: that write is outside every try block, so
\* when it raises (outcome "open" or "dump") _load_rules raises too.
LoadRules(file, outcome) ==
    IF file # <<>>
    THEN [raised |-> FALSE, rules |-> SafeLoad(file), file |-> file]
    ELSE IF outcome = "ok"
         THEN [raised |-> FALSE, rules |-> DefaultRules,
               file |-> YamlDump(DefaultRules)]
         ELSE [raised |-> TRUE, rules |-> <<>>,
               file |-> WriteRules(file, DefaultRules, outcome)]

\* ------------------------------------------------- rule store: the inputs

RuleNames == {1, 2, 3}

WriteOutcomes == {"ok", "open", "dump"}

\* the rules file before the program starts: absent, or written by hand
StoredFiles ==
    { <<>>,
      << FileEntry(Rule(3, << <<"a">> >>, <<>>, "Fuel")),
         FileEntry(Rule(1, << <<"b">> >>, <<>>, "Shop")) >> }

InitStore ==
    /\ \E file \in StoredFiles :
          /\ rules = LoadRules(file, "ok").rules
          /\ rulesFile = LoadRules(file, "ok").file
    /\ trip = [stage |-> 0]
    /\ sresp = [op |-> "load", raised |-> FALSE]
    /\ categories = <<>>
    /\ cls = [op |-> "none"]
    /\ LedgerIdle
    /\ ResolverIdle
    /\ BudgetIdle
    /\ SheetsIdle

\* the categorizer exists: its construction did not raise
Constructed == ~(sresp.op = "load" /\ sresp.raised)

\* add_custom_rule: returns None whatever the outcome of the write
AddCustomRule ==
    \E rule_name \in RuleNames, outcome \in WriteOutcomes :
        /\ Constructed
        /\ rules' = SetRule(rules, Rule(rule_name, << <<"a">> >>, <<>>,
                                        "Fuel"))
        /\ rulesFile' = WriteRules(rulesFile, rules', outcome)
        /\ trip' = [stage |-> 1, name |-> rule_name,
                    rules |-> rules, file |-> rulesFile,
                    existed |-> HasRule(rules, rule_name),
                    saved |-> FALSE]
        /\ sresp' = [op |-> "add", name |-> rule_name,
                     raised |-> FALSE, returned |-> None,
                     wrote |-> outcome = "ok", changed |-> TRUE]
        /\ UNCHANGED <<categories, cls, varsLedger, varsResolver, varsBudget, varsSheets>>

\* get_all_rules: returns the table and changes nothing
GetAllRules ==
    /\ Constructed
    /\ trip' = IF trip.stage = 1 THEN [trip EXCEPT !.stage = 2]
               ELSE [stage |-> 0]
    /\ sresp' = [op |-> "get_all", raised |-> FALSE]
    /\ UNCHANGED <<rules, rulesFile, categories, cls, varsLedger,
                   varsResolver, varsBudget, varsSheets>>

\* update_rule: returns None whatever the outcome of the write
UpdateRule ==
    \E rule_name \in RuleNames, outcome \in WriteOutcomes :
        /\ Constructed
        /\ IF HasRule(rules, rule_name)
           THEN /\ rules' = [i \in 1..Len(rules) |->
                               IF rules[i].name = rule_name
                               THEN MergeRule(rules[i],
                                              [category_name |-> "Fuel"])
                               ELSE rules[i]]
                /\ rulesFile' = WriteRules(rulesFile, rules', outcome)
           ELSE UNCHANGED <<rules, rulesFile>>
        /\ trip' = [stage |-> 0]
        /\ sresp' = [op |-> "update", name |-> rule_name,
                     raised |-> FALSE, returned |-> None,
                     wrote |-> HasRule(rules, rule_name) /\ outcome = "ok",
                     changed |-> HasRule(rules, rule_name)]
        /\ UNCHANGED <<categories, cls, varsLedger, varsResolver, varsBudget, varsSheets>>

\* delete_rule: returns None whatever the outcome of the write
DeleteRule ==
    \E rule_name \in RuleNames, outcome \in WriteOutcomes :
        /\ Constructed
        /\ IF HasRule(rules, rule_name)
           THEN /\ rules' = DelRule(rules, rule_name)
                /\ rulesFile' = WriteRules(rulesFile, rules', outcome)
           ELSE UNCHANGED <<rules, rulesFile>>
        /\ trip' = IF trip.stage = 2 /\ trip.name = rule_name
                   THEN [trip EXCEPT !.stage = 3,
                                     !.saved = HasRule(rules, rule_name)
                                                 /\ outcome = "ok"]
                   ELSE [stage |-> 0]
        /\ sresp' = [op |-> "delete", name |-> rule_name,
                     raised |-> FALSE, returned |-> None,
                     wrote |-> HasRule(rules, rule_name) /\ outcome = "ok",
                     changed |-> HasRule(rules, rule_name)]
        /\ UNCHANGED <<categories, cls, varsLedger, varsResolver, varsBudget, varsSheets>>

\* The process starts again: AutoCategorizer() loads the rules from the file.
\* When _load_rules raises no categorizer exists until the next start.
Restart ==
    \E outcome \in WriteOutcomes :
        /\ rules' = LoadRules(rulesFile, outcome).rules
        /\ rulesFile' = LoadRules(rulesFile, outcome).file
        /\ trip' = [stage |-> 0]
        /\ sresp' = [op |-> "load",
                     raised |-> LoadRules(rulesFile, outcome).raised]
        /\ UNCHANGED <<categories, cls, varsLedger, varsResolver, varsBudget, varsSheets>>

NextStore ==
    AddCustomRule \/ GetAllRules \/ UpdateRule \/ DeleteRule \/ Restart

SpecStore == InitStore /\ [][NextStore]_vars

\* ------------------------------------------------- rule store: the claims

\* add_custom_rule(name), get_all_rules, delete_rule(name) have run in a row
RoundTripDone == trip.stage = 3

TieTexts == { <<"a", "b">> }

\* The category name categorize_transaction resolves for a text under a rule
\* table ("" for no match)
Winner(text, rs) ==
    LET r == CategorizeTransaction(text, None, rs, <<>>, {})
    IN  IF r.id = NoId THEN "" ELSE r.cats[r.id]

\* C11 as stated: when the rule table has been saved to the file, loading it
\* again at a restart yields the rules in the same order, and for every text
\* the rule that wins is the same before and after.
C11_OrderSurvivesRestart ==
    [][ ( /\ Constructed
          /\ rules # <<>>
          /\ rulesFile = YamlDump(rules)
          /\ sresp'.op = "load"
          /\ ~sresp'.raised ) =>
           /\ rules' = rules
           /\ \A text \in TieTexts : Winner(text, rules') = Winner(text, rules)
      ]_vars

\* the last call was a rule mutation that changed the table and whose write
\* of the file failed
MutationWriteFailed(r) ==
    /\ r.op \in {"add", "update", "delete"}
    /\ r.changed
    /\ ~r.wrote

\* the table holds the value the mutation set
HoldsMutation(rs, r) ==
    CASE r.op = "add" ->
           \E i \in 1..Len(rs) :
               rs[i] = Rule(r.name, << <<"a">> >>, <<>>, "Fuel")
      [] r.op = "update" ->
           \E i \in 1..Len(rs) :
               rs[i].name = r.name /\ rs[i].category_name = "Fuel"
      [] r.op = "delete" -> ~HasRule(rs, r.name)

\* C14 as stated: when a rule mutation fails to write the file, the failure
\* is reported to the caller (the call raises or returns something that tells
\* it) and the in-memory table keeps the mutated value.
C14_WriteFailureReported ==
    MutationWriteFailed(sresp) =>
        /\ sresp.raised \/ sresp.returned # None
        /\ HoldsMutation(rules, sresp)

\* C15 as stated: loading the rules never fails: with a file that is absent,
\* empty or unreadable the load returns the default rules and the
\* construction completes, whatever the outcome of the write of the file
\* attempted during the load.
C15_LoadNeverFails ==
    [][ (rulesFile = <<>> /\ sresp'.op = "load") =>
           /\ ~sresp'.raised
           /\ rules' = DefaultRules ]_vars

\* the mapping a file holds, and the mapping the table is
FileMapping(file) == { file[i] : i \in 1..Len(file) }

TableMapping(rs) == { FileEntry(rs[i]) : i \in 1..Len(rs) }

\* C23: every rule mutation that changes the table and whose write succeeds
\* rewrites the whole file from the table, so after add_custom_rule,
\* update_rule and delete_rule calls whose writes succeed the mapping in the
\* file equals the in-memory table (a call that changes nothing keeps them
\* equal).
C23_FileHoldsTheTable ==
    [][ ( /\ sresp'.op \in {"add", "update", "delete"}
          /\ sresp'.changed => sresp'.wrote
          /\ sresp'.changed \/ FileMapping(rulesFile) = TableMapping(rules) )
        => ( /\ FileMapping(rulesFile') = TableMapping(rules')
             /\ Len(rulesFile') = Len(rules')
             /\ sresp'.changed => rulesFile' = YamlDump(rules') ) ]_vars

\* add_custom_rule has added a third rule to a table that is not in key
\* order, and the file holds the three
C23_Witness ==
    /\ sresp.op = "add"
    /\ sresp.wrote
    /\ Len(rules) = 3
    /\ rules[1].name > rules[2].name
    /\ Len(rulesFile) = 3
    /\ FileMapping(rulesFile) = TableMapping(rules)

\* --------------------------------------------- rule store: calls that race

\* Two threads of the process call a mutation of the one AutoCategorizer.
\* No lock is taken: a call changes the table, opens the file for writing
\* (which empties it), serialises the table as it is at that moment into the
\* buffer of its file object, and closes the file, which writes the buffer
\* from the start of the file. A call is [pc, op, name] and, after the dump,
\* buf.

\* The file after a buffer is written from its start: what lay beyond the
\* length of the buffer stays. Entries stand for their bytes.
Overlay(buf, file) == buf \o SubSeq(file, Len(buf) + 1, Len(file))

InitStoreRace ==
    /\ \E file \in StoredFiles :
          /\ rules = LoadRules(file, "ok").rules
          /\ rulesFile = LoadRules(file, "ok").file
    /\ trip = [stage |-> 0]
    /\ sresp = [op |-> "load", raised |-> FALSE]
    /\ categories = <<>>
    /\ cls = [op |-> "none"]
    /\ LedgerIdle
    /\ rcall = [op |-> "none"]
    /\ req = [w \in Workers |-> [pc |-> "idle"]]
    /\ BudgetIdle
    /\ SheetsIdle

\* a thread calls add_custom_rule, update_rule or delete_rule
StoreRaceCall(w) ==
    \E op \in {"add", "update", "delete"}, rule_name \in RuleNames :
        /\ req[w].pc = "idle"
        /\ req' = [req EXCEPT ![w] =
                     [pc |-> "mutate", op |-> op, name |-> rule_name]]
        /\ UNCHANGED <<varsClassifier, varsLedger, rcall, varsBudget, varsStore,
                       varsSheets>>

\* the statement that changes self.rules; update_rule and delete_rule of a
\* name the table lacks return at once
StoreRaceMutate(w) ==
    LET r == req[w]
        changed == r.op = "add" \/ HasRule(rules, r.name)
    IN  /\ r.pc = "mutate"
        /\ rules' =
             CASE r.op = "add" ->
                    SetRule(rules, Rule(r.name, << <<"a">> >>, <<>>, "Fuel"))
               [] r.op = "update" /\ changed ->
                    [i \in 1..Len(rules) |->
                        IF rules[i].name = r.name
                        THEN MergeRule(rules[i], [category_name |-> "Fuel"])
                        ELSE rules[i]]
               [] r.op = "delete" /\ changed -> DelRule(rules, r.name)
               [] OTHER -> rules
        /\ req' = [req EXCEPT ![w] =
                     [pc |-> IF changed THEN "open" ELSE "done",
                      op |-> r.op, name |-> r.name, changed |-> changed]]
        /\ UNCHANGED <<categories, cls, varsLedger, rcall, varsBudget,
                       varsStore, varsSheets>>

\* open(self.rules_file, 'w'): the file is emptied
StoreRaceOpen(w) ==
    /\ req[w].pc = "open"
    /\ rulesFile' = <<>>
    /\ req' = [req EXCEPT ![w].pc = "dump"]
    /\ UNCHANGED <<varsClassifier, varsLedger, rcall, varsBudget, trip, sresp,
                   varsSheets>>

\* yaml.dump(self.rules, f): the table of this moment, into the buffer
StoreRaceDump(w) ==
    /\ req[w].pc = "dump"
    /\ req' = [req EXCEPT ![w] =
                 [pc |-> "close", op |-> req[w].op, name |-> req[w].name,
                  changed |-> TRUE, buf |-> YamlDump(rules)]]
    /\ UNCHANGED <<varsClassifier, varsLedger, rcall, varsBudget, varsStore,
                   varsSheets>>

\* the end of the with block: the buffer is written and the call returns
StoreRaceClose(w) ==
    /\ req[w].pc = "close"
    /\ rulesFile' = Overlay(req[w].buf, rulesFile)
    /\ req' = [req EXCEPT ![w] =
                 [pc |-> "done", op |-> req[w].op, name |-> req[w].name,
                  changed |-> TRUE]]
    /\ UNCHANGED <<varsClassifier, varsLedger, rcall, varsBudget, trip, sresp,
                   varsSheets>>

NextStoreRace ==
    \E w \in Workers :
        \/ StoreRaceCall(w)
        \/ StoreRaceMutate(w)
        \/ StoreRaceOpen(w)
        \/ StoreRaceDump(w)
        \/ StoreRaceClose(w)

SpecStoreRace == InitStoreRace /\ [][NextStoreRace]_vars

\* both calls have returned, and they were on different rule names
BothMutationsDone ==
    /\ \A w \in Workers : req[w].pc = "done"
    /\ \A v, w \in Workers : v # w => req[v].name # req[w].name

\* C20 as stated: when two rule mutations on different rule names race, after
\* both complete the in-memory table and the file both hold the effect of
\* both mutations.
C20_BothMutationsKept ==
    BothMutationsDone =>
        \A w \in Workers :
            req[w].changed =>
                /\ HoldsMutation(rules, req[w])
                /\ HoldsMutation(SafeLoad(rulesFile), req[w])

====
